---------------------------- MODULE Spec2Model ----------------------------
(***************************************************************************)
(* A model of python_test_waf (src/waf_tester.py): the request replay and  *)
(* verdict engine.  Texts are sequences of one-character strings, so that  *)
(* splitting, stripping, substring search and number parsing are computed  *)
(* the way the Python code computes them.                                  *)
(***************************************************************************)
EXTENDS Integers, Sequences, FiniteSets, TLC

(***************************************************************************)
(* Characters.                                                             *)
(***************************************************************************)
SP == " "
CR == "CR"
LF == "LF"
TAB == "TAB"

\* str.strip() and str.split() without argument treat these as whitespace.
Whitespace == {SP, CR, LF, TAB}

Digits == <<"0", "1", "2", "3", "4", "5", "6", "7", "8", "9">>

IsDigit(c) == \E i \in 1..10 : Digits[i] = c

DigitVal(c) == (CHOOSE i \in 1..10 : Digits[i] = c) - 1

(***************************************************************************)
(* Python string operations.                                               *)
(***************************************************************************)
\* s[i:] for a 1-based i
Drop(s, i) == SubSeq(s, i, Len(s))

\* s[:n]
Take(s, n) == SubSeq(s, 1, n)

\* str.startswith at offset i (1-based): s[i:i+len(p)] == p
MatchAt(s, p, i) ==
    /\ i + Len(p) - 1 <= Len(s)
    /\ \A k \in 1..Len(p) : s[i + k - 1] = p[k]

\* the `in` operator on two str: p occurs in s as a contiguous substring
Contains(s, p) == \E i \in 1..(Len(s) + 1) : MatchAt(s, p, i)

\* index of the first occurrence of p in s at or after i, 0 when there is none
RECURSIVE FindFrom(_, _, _)
FindFrom(s, p, i) ==
    IF i + Len(p) - 1 > Len(s) THEN 0
    ELSE IF MatchAt(s, p, i) THEN i
    ELSE FindFrom(s, p, i + 1)

\* str.lstrip()
RECURSIVE LStrip(_)
LStrip(s) ==
    IF s # <<>> /\ Head(s) \in Whitespace THEN LStrip(Tail(s)) ELSE s

\* str.rstrip()
RECURSIVE RStrip(_)
RStrip(s) ==
    IF s # <<>> /\ s[Len(s)] \in Whitespace THEN RStrip(Take(s, Len(s) - 1)) ELSE s

\* str.strip()
Strip(s) == RStrip(LStrip(s))

\* str.split(sep) for a non-empty separator: every occurrence splits, empty
\* pieces are kept
RECURSIVE SplitOn(_, _)
SplitOn(s, sep) ==
    LET i == FindFrom(s, sep, 1)
    IN  IF i = 0 THEN <<s>>
        ELSE <<Take(s, i - 1)>> \o SplitOn(Drop(s, i + Len(sep)), sep)

\* str.split(sep, 1): at most one split, at the first occurrence
SplitOnce(s, sep) ==
    LET i == FindFrom(s, sep, 1)
    IN  IF i = 0 THEN <<s>>
        ELSE <<Take(s, i - 1), Drop(s, i + Len(sep))>>

\* the first whitespace-free run of s, s not starting with whitespace
RECURSIVE WordLen(_)
WordLen(s) ==
    IF s = <<>> \/ Head(s) \in Whitespace THEN 0 ELSE 1 + WordLen(Tail(s))

\* str.split(): split on runs of whitespace, no empty pieces
RECURSIVE SplitWs(_)
SplitWs(s) ==
    LET t == LStrip(s)
    IN  IF t = <<>> THEN <<>>
        ELSE <<Take(t, WordLen(t))>> \o SplitWs(Drop(t, WordLen(t) + 1))

\* sep.join(parts)
RECURSIVE Join(_, _)
Join(parts, sep) ==
    IF parts = <<>> THEN <<>>
    ELSE IF Len(parts) = 1 THEN parts[1]
    ELSE parts[1] \o sep \o Join(Tail(parts), sep)

\* str(n) for n >= 0
RECURSIVE StrOfNat(_)
StrOfNat(n) ==
    IF n < 10 THEN <<Digits[n + 1]>>
    ELSE StrOfNat(n \div 10) \o <<Digits[(n % 10) + 1]>>

\* int(s) succeeds on an optional sign followed by decimal digits; anything
\* else raises ValueError
IntOk(s) ==
    LET d == IF s # <<>> /\ Head(s) \in {"+", "-"} THEN Tail(s) ELSE s
    IN  /\ d # <<>>
        /\ \A i \in 1..Len(d) : IsDigit(d[i])

RECURSIVE NatOfDigits(_)
NatOfDigits(d) ==
    IF d = <<>> THEN 0
    ELSE 10 * NatOfDigits(Take(d, Len(d) - 1)) + DigitVal(d[Len(d)])

\* int(s), for IntOk(s)
IntOf(s) ==
    IF Head(s) = "-" THEN 0 - NatOfDigits(Tail(s))
    ELSE IF Head(s) = "+" THEN NatOfDigits(Tail(s))
    ELSE NatOfDigits(s)

(***************************************************************************)
(* The texts the program produces.                                         *)
(***************************************************************************)
TxtInvalidRequestLine ==
    <<"I", "n", "v", "a", "l", "i", "d", SP, "r", "e", "q", "u", "e", "s",
      "t", SP, "l", "i", "n", "e">>

TxtNoHost ==
    <<"N", "o", SP, "H", "o", "s", "t", SP, "h", "e", "a", "d", "e", "r",
      SP, "f", "o", "u", "n", "d", SP, "a", "n", "d", SP, "n", "o", SP,
      "t", "a", "r", "g", "e", "t", SP, "s", "p", "e", "c", "i", "f", "i",
      "e", "d">>

TxtInvalidStatusLine ==
    <<"I", "n", "v", "a", "l", "i", "d", SP, "r", "e", "s", "p", "o", "n",
      "s", "e", SP, "s", "t", "a", "t", "u", "s", SP, "l", "i", "n", "e">>

TxtTimeoutTried ==
    <<"T", "i", "m", "e", "o", "u", "t", SP, "(", "t", "r", "i", "e", "d",
      SP>>

TxtTimes ==
    <<SP, "t", "i", "m", "e", "s", ")">>

TxtReset ==
    <<"C", "o", "n", "n", "e", "c", "t", "i", "o", "n", SP, "R", "e", "s",
      "e", "t", SP, "b", "y", SP, "P", "e", "e", "r">>

TxtConnectionError ==
    <<"C", "o", "n", "n", "e", "c", "t", "i", "o", "n", SP, "E", "r", "r",
      "o", "r">>

TxtAll ==
    <<"A", "l", "l", SP>>

TxtAttemptsFailed ==
    <<SP, "a", "t", "t", "e", "m", "p", "t", "s", SP, "f", "a", "i", "l",
      "e", "d">>

TxtHttp11 ==
    <<"H", "T", "T", "P", "/", "1", ".", "1">>

TxtContentLength ==
    <<"C", "o", "n", "t", "e", "n", "t", "-", "L", "e", "n", "g", "t", "h">>

TxtContentLengthLower ==
    <<"c", "o", "n", "t", "e", "n", "t", "-", "l", "e", "n", "g", "t", "h">>

TxtHost ==
    <<"H", "o", "s", "t">>

TxtHostLower ==
    <<"h", "o", "s", "t">>

TxtInvalidLiteral ==
    <<"i", "n", "v", "a", "l", "i", "d", SP, "l", "i", "t", "e", "r", "a",
      "l", SP, "f", "o", "r", SP, "i", "n", "t", "(", ")", SP, "w", "i",
      "t", "h", SP, "b", "a", "s", "e", SP, "1", "0", ":", SP>>

TxtNoSuchFile ==
    <<"[", "E", "r", "r", "n", "o", SP, "2", "]", SP, "N", "o", SP, "s",
      "u", "c", "h", SP, "f", "i", "l", "e", SP, "o", "r", SP, "d", "i",
      "r", "e", "c", "t", "o", "r", "y">>

TxtRefused ==
    <<"[", "E", "r", "r", "n", "o", SP, "1", "1", "1", "]", SP, "C", "o",
      "n", "n", "e", "c", "t", "i", "o", "n", SP, "r", "e", "f", "u", "s",
      "e", "d">>

TxtNetErrA ==
    <<"C", "o", "n", "n", "e", "c", "t", "i", "o", "n", "E", "r", "r", "o",
      "r">>

TxtNetErrB ==
    <<"C", "o", "n", "n", "e", "c", "t", "i", "o", "n", SP, "e", "r", "r",
      "o", "r">>

TxtNetErrC ==
    <<"F", "a", "i", "l", "e", "d", SP, "t", "o", SP, "e", "s", "t", "a",
      "b", "l", "i", "s", "h", SP, "a", SP, "n", "e", "w", SP, "c", "o",
      "n", "n", "e", "c", "t", "i", "o", "n">>

\* the two characters of the prefix of a wrapped exception text, then ": "
TxtErrPrefix == <<"U+9519", "U+8BEF", ":", SP>>

Upper ==
    <<"A", "B", "C", "D", "E", "F", "G", "H", "I", "J", "K", "L", "M", "N",
      "O", "P", "Q", "R", "S", "T", "U", "V", "W", "X", "Y", "Z">>

Lower ==
    <<"a", "b", "c", "d", "e", "f", "g", "h", "i", "j", "k", "l", "m", "n",
      "o", "p", "q", "r", "s", "t", "u", "v", "w", "x", "y", "z">>

\* str.lower(), character by character
LowerChar(c) ==
    IF \E i \in 1..26 : Upper[i] = c
    THEN Lower[CHOOSE i \in 1..26 : Upper[i] = c]
    ELSE c

LowerStr(s) == [i \in 1..Len(s) |-> LowerChar(s[i])]

\* len(s.encode('utf-8')): the characters named U+.... take three bytes
\* (they stand for CJK characters), every other character of the model one
Utf8Len(s) ==
    LET Wide == {i \in 1..Len(s) : s[i] \in {"U+9519", "U+8BEF"}}
    IN  Len(s) + 2 * Cardinality(Wide)

(***************************************************************************)
(* dict[str, str]: insertion-ordered, a repeated key keeps its place and   *)
(* takes the later value.                                                  *)
(***************************************************************************)
DictHas(d, k) == \E i \in 1..Len(d) : d[i][1] = k

\* d.get(k, default)
DictGet(d, k, default) ==
    IF DictHas(d, k) THEN d[CHOOSE i \in 1..Len(d) : d[i][1] = k][2]
    ELSE default

\* a variant in which a key that is assigned again moves to the end
DictSetMovesKey(d, k, v) ==
    Append(SelectSeq(d, LAMBDA e : e[1] # k), <<k, v>>)

\* d[k] = v
DictSet(d, k, v) ==
    IF DictHas(d, k)
    THEN [i \in 1..Len(d) |-> IF d[i][1] = k THEN <<k, v>> ELSE d[i]]
    ELSE Append(d, <<k, v>>)

(***************************************************************************)
(* parse_http_request                                                      *)
(***************************************************************************)
\* the loop over lines[1:]: st = [headers, body, in_body]
RECURSIVE ParseLines(_, _)
ParseLines(lines, st) ==
    IF lines = <<>> THEN st
    ELSE LET line == Head(lines)
             nxt  == IF st.in_body
                       THEN [st EXCEPT !.body = st.body \o line \o <<LF>>]
                     ELSE IF Strip(line) = <<>>
                       THEN [st EXCEPT !.in_body = TRUE]
                     ELSE IF Contains(line, <<":">>)
                       THEN LET kv == SplitOnce(line, <<":">>)
                            IN  [st EXCEPT !.headers =
                                   DictSet(st.headers, Strip(kv[1]), Strip(kv[2]))]
                     ELSE st
         IN  ParseLines(Tail(lines), nxt)

parse_http_request(content) ==
    LET lines == SplitOn(Strip(content), <<LF>>)
        st    == ParseLines(Tail(lines),
                            [headers |-> <<>>, body |-> <<>>, in_body |-> FALSE])
    IN  [request_line |-> lines[1],
         headers      |-> st.headers,
         body         |-> RStrip(st.body)]

(***************************************************************************)
(* send_request, before the retry loop: request line, destination, wire    *)
(* request.                                                                *)
(***************************************************************************)
Outcome(status_code, reason, response_body, is_rst_detected) ==
    [status_code     |-> status_code,
     reason          |-> reason,
     response_body   |-> response_body,
     is_rst_detected |-> is_rst_detected]

\* host and port from "host:port" or "host"; ok = FALSE when int(port_str)
\* raises ValueError, err being the exception's text
HostPort(addr, protocol) ==
    IF Contains(addr, <<":">>)
    THEN LET hp == SplitOnce(addr, <<":">>)
             \* int() strips surrounding whitespace before parsing
             p  == Strip(hp[2])
         IN  IF IntOk(p)
             THEN [ok |-> TRUE, host |-> hp[1], port |-> IntOf(p), err |-> <<>>]
             ELSE [ok |-> FALSE, host |-> hp[1], port |-> 0,
                   err |-> TxtInvalidLiteral \o <<"'">> \o hp[2] \o <<"'">>]
    ELSE [ok |-> TRUE, host |-> addr,
          port |-> IF protocol = "https" THEN 443 ELSE 80, err |-> <<>>]

\* headers_to_send: Content-Length added when absent in both spellings
HeadersToSend(headers, body) ==
    IF ~DictHas(headers, TxtContentLength) /\ ~DictHas(headers, TxtContentLengthLower)
    THEN DictSet(headers, TxtContentLength,
                 StrOfNat(IF body # <<>> THEN Utf8Len(body) ELSE 0))
    ELSE headers

\* a variant that writes the headers last to first
RECURSIVE HeaderLinesReversed(_)
HeaderLinesReversed(h) ==
    IF h = <<>> THEN <<>>
    ELSE HeaderLinesReversed(Tail(h))
         \o h[1][1] \o <<":", SP>> \o h[1][2] \o <<CR, LF>>

RECURSIVE HeaderLines(_)
HeaderLines(h) ==
    IF h = <<>> THEN <<>>
    ELSE h[1][1] \o <<":", SP>> \o h[1][2] \o <<CR, LF>> \o HeaderLines(Tail(h))

\* full_request
FullRequest(parts, headers, body) ==
    LET http_version == IF Len(parts) >= 3 THEN parts[3] ELSE TxtHttp11
    IN  parts[1] \o <<SP>> \o parts[2] \o <<SP>> \o http_version \o <<CR, LF>>
        \o HeaderLines(HeadersToSend(headers, body))
        \o <<CR, LF>>
        \o body

\* a variant in which the Host header comes before the target
DestinationHostFirst(target_host, host_in_header) ==
    IF host_in_header # <<>> THEN host_in_header ELSE target_host

\* the address the request goes to: the target when one is given, otherwise
\* the value of the Host header
Destination(target_host, host_in_header) ==
    IF target_host # <<>> THEN target_host ELSE host_in_header

\* a variant that answers a request line without path with a status code
InvalidRequestLineAsStatus ==
    [kind |-> "return", outcome |-> Outcome(400, TxtInvalidRequestLine, <<>>, FALSE),
     err |-> <<>>, host |-> <<>>, port |-> 0, full_request |-> <<>>]

\* a variant in which a request line without path is an exception
InvalidRequestLineRaised ==
    [kind |-> "raise", outcome |-> Outcome(0, <<>>, <<>>, FALSE),
     err |-> TxtInvalidRequestLine, host |-> <<>>, port |-> 0,
     full_request |-> <<>>]

\* `if len(parts) < 2: return 0, "Invalid request line", "", False`
InvalidRequestLine ==
    [kind |-> "return", outcome |-> Outcome(0, TxtInvalidRequestLine, <<>>, FALSE),
     err |-> <<>>, host |-> <<>>, port |-> 0, full_request |-> <<>>]

\* What send_request has done when it reaches the retry loop:
\*   kind = "return": it has returned `outcome` without any attempt
\*   kind = "raise" : int(port_str) raised ValueError with text `err`
\*   kind = "loop"  : it enters the loop, to send full_request to host:port
Prepare(request_line, headers, body, target_host, protocol) ==
    LET parts          == SplitWs(request_line)
        host_in_header == DictGet(headers, TxtHost, DictGet(headers, TxtHostLower, <<>>))
        none           == [kind |-> "return", outcome |-> Outcome(0, <<>>, <<>>, FALSE),
                           err |-> <<>>, host |-> <<>>, port |-> 0,
                           full_request |-> <<>>]
    IN  IF Len(parts) < 2
        THEN InvalidRequestLine
        ELSE IF target_host = <<>> /\ host_in_header = <<>>
        THEN [none EXCEPT !.outcome = Outcome(0, TxtNoHost, <<>>, FALSE)]
        ELSE LET hp == HostPort(Destination(target_host, host_in_header), protocol)
             IN  IF ~hp.ok
                 THEN [none EXCEPT !.kind = "raise", !.err = hp.err]
                 ELSE [none EXCEPT !.kind = "loop", !.host = hp.host,
                                   !.port = hp.port,
                                   !.full_request = FullRequest(parts, headers, body)]

(***************************************************************************)
(* send_request, one attempt that received `response_str` (the peer closed *)
(* or a read timed out): the status line.                                  *)
(***************************************************************************)
\* a variant that reports a status line without status code as a reset
MalformedResponseAsReset(response_str) ==
    [kind |-> "return", err |-> <<>>,
     outcome |-> Outcome(0, TxtInvalidStatusLine, response_str, TRUE)]

\* a variant in which a status line without status code is an exception
MalformedResponseRaised(response_str) ==
    [kind |-> "raise", err |-> TxtInvalidStatusLine,
     outcome |-> Outcome(0, <<>>, <<>>, FALSE)]

\* `if len(status_parts) < 2:
\*      return 0, "Invalid response status line", response_str, False`
MalformedResponse(response_str) ==
    [kind |-> "return", err |-> <<>>,
     outcome |-> Outcome(0, TxtInvalidStatusLine, response_str, FALSE)]

\* kind = "return": the attempt returns `outcome`
\* kind = "raise" : int(status_parts[1]) raised ValueError with text `err`
ParseResponse(response_str) ==
    LET status_line  == SplitOn(response_str, <<CR, LF>>)[1]
        status_parts == SplitWs(status_line)
    IN  IF Len(status_parts) < 2
        THEN MalformedResponse(response_str)
        ELSE IF ~IntOk(status_parts[2])
        THEN [kind |-> "raise",
              err |-> TxtInvalidLiteral \o <<"'">> \o status_parts[2] \o <<"'">>,
              outcome |-> Outcome(0, <<>>, <<>>, FALSE)]
        ELSE [kind |-> "return", err |-> <<>>,
              outcome |-> Outcome(IntOf(status_parts[2]),
                                  IF Len(status_parts) > 2
                                  THEN Join(SubSeq(status_parts, 3, Len(status_parts)), <<SP>>)
                                  ELSE <<>>,
                                  response_str, FALSE)]

\* a variant in which a timeout is reported like a reset
TimeoutOutcomeAsReset(max_retries) == Outcome(0, TxtReset, <<>>, TRUE)

\* the outcomes returned when the last allowed attempt fails
TimeoutOutcome(max_retries) ==
    Outcome(0, TxtTimeoutTried \o StrOfNat(max_retries) \o TxtTimes, <<>>, FALSE)

\* a variant in which a reset is reported by the generic handler
ResetOutcomeAsError == Outcome(0, TxtConnectionError, <<>>, FALSE)

ResetOutcome == Outcome(0, TxtReset, <<>>, TRUE)

ErrorOutcome(debug, err) ==
    Outcome(0, IF ~debug THEN TxtConnectionError
               ELSE TxtConnectionError \o <<":", SP>> \o err,
            <<>>, FALSE)

\* the return after the loop
AllFailedOutcome(max_retries) ==
    Outcome(0, TxtAll \o StrOfNat(max_retries) \o TxtAttemptsFailed, <<>>, FALSE)

(***************************************************************************)
(* test_file_content: the verdict.                                         *)
(***************************************************************************)
\* a variant that looks for the keyword in the response body only
ActuallyBlockedBodyOnly(o, custom_code, rst_detect, keyword) ==
    \/ o.status_code = custom_code
    \/ rst_detect /\ o.is_rst_detected
    \/ keyword # <<>> /\ Contains(o.response_body, keyword)

\* actually_blocked
ActuallyBlocked(o, custom_code, rst_detect, keyword) ==
    \/ o.status_code = custom_code
    \/ rst_detect /\ o.is_rst_detected
    \/ /\ keyword # <<>>
       /\ Contains(o.response_body, keyword) \/ Contains(o.reason, keyword)

\* is_correct
IsCorrect(is_black, actually_blocked) == (is_black = actually_blocked)

(***************************************************************************)
(* test_file_wrapper: the result dictionary.                               *)
(***************************************************************************)
SampleType(is_black) == IF is_black THEN "black sample" ELSE "white sample"

\* the dictionary returned when test_file_content returned
VerdictResult(file, is_correct, o) ==
    [file             |-> file.name,
     file_path        |-> file.path,
     type             |-> SampleType(file.is_black),
     is_correct       |-> is_correct,
     status_code      |-> o.status_code,
     reason           |-> o.reason,
     expected_blocked |-> file.is_black,
     content          |-> file.content]

\* is_network_error
IsNetworkError(error_str) ==
    \/ Contains(error_str, TxtNetErrA)
    \/ Contains(LowerStr(error_str), TxtNetErrB)
    \/ Contains(error_str, TxtNetErrC)

\* the dictionary returned by the except branch
ErrorResult(file, debug, error_str) ==
    [file             |-> file.name,
     file_path        |-> file.path,
     type             |-> SampleType(file.is_black),
     is_correct       |-> FALSE,
     status_code      |-> 0,
     reason           |-> IF IsNetworkError(error_str) /\ ~debug
                          THEN TxtConnectionError
                          ELSE TxtErrPrefix \o error_str,
     expected_blocked |-> file.is_black,
     content          |-> <<>>]

(***************************************************************************)
(* The inputs of the model: sample files, targets, keywords, and what the  *)
(* network answers.                                                        *)
(***************************************************************************)
ContentA ==
    <<"G", "E", "T", SP, "/", "a", SP, "H", "T", "T", "P", "/", "1", ".",
      "1", LF, "H", "o", "s", "t", ":", SP, "x", LF, LF>>

ContentNoHost ==
    <<"G", "E", "T", SP, "/", "a", LF, LF>>

ContentBadLine ==
    <<"G", "E", "T", LF>>

ContentBadPort ==
    <<"G", "E", "T", SP, "/", "a", SP, "H", "T", "T", "P", "/", "1", ".",
      "1", LF, "H", "o", "s", "t", ":", SP, "x", ":", "y", LF, LF>>

ContentPost ==
    <<"P", "O", "S", "T", SP, "/", "b", SP, "H", "T", "T", "P", "/", "1",
      ".", "0", LF, "h", "o", "s", "t", ":", SP, "x", ":", "8", LF, "C",
      "o", "n", "t", "e", "n", "t", "-", "T", "y", "p", "e", ":", SP, "t",
      LF, LF, "k", "=", "v", LF>>

Resp200 ==
    <<"H", "T", "T", "P", "/", "1", ".", "1", SP, "2", "0", "0", SP, "O",
      "K", CR, LF, CR, LF, "h", "i">>

Resp403 ==
    <<"H", "T", "T", "P", "/", "1", ".", "1", SP, "4", "0", "3", SP, "F",
      "o", "r", "b", "i", "d", "d", "e", "n", CR, LF, CR, LF>>

Resp200Forbidden ==
    <<"H", "T", "T", "P", "/", "1", ".", "1", SP, "2", "0", "0", SP, "O",
      "K", CR, LF, CR, LF, "F", "o", "r", "b", "i", "d", "d", "e", "n">>

RespOneToken ==
    <<"H", "T", "T", "P", "/", "1", ".", "1", CR, LF>>

RespNonInt ==
    <<"H", "T", "T", "P", "/", "1", ".", "1", SP, "a", "b", "c", SP, "O",
      "K", CR, LF>>

KwForbidden ==
    <<"F", "o", "r", "b", "i", "d", "d", "e", "n">>

KwReset ==
    <<"R", "e", "s", "e", "t">>

TargetT8 ==
    <<"t", ":", "8">>

TargetBadPort ==
    <<"t", ":", "z">>

\* the bytes an attempt can have received when its reading ends
Responses ==
    {<<>>, Resp200, Resp403, Resp200Forbidden, RespOneToken, RespNonInt}

\* packet_loss_rate, in percent
LossRates == {0, 50, 100}

\* random.random() is in [0.0, 1.0): in percent, below 100
RandomDraws == {0, 49, 50, 99}

\* the largest max_retries of a run
MaxRetries == 3

\* the largest number of sample files of a directory
MaxSamples == 2

\* the largest number of pool threads
MaxThreads == 2

(***************************************************************************)
(* State.                                                                  *)
(***************************************************************************)
VARIABLES
    cfg,            \* the arguments of test_directory
    net,            \* what the network and the target can do to an attempt
    files,          \* all_files: the samples, black ones first
    run,            \* "Idle", "Running", "Completed", "Aborted", "Crashed"
    queue,          \* the executor's work queue: task indexes, first in first out
    task,           \* task[i]: the worker's position and locals for all_files[i]
    finished,       \* futures that are done and not yet yielded by as_completed
    completed,      \* completed
    results,        \* results
    correct_count,  \* correct_count
    stats,          \* the counts of the summary
    cli,            \* the process of the command line: main's position,
                    \* its --target and --timeout, the timeout pair it
                    \* passes on and its exit status
    wire,           \* one sample on its way through parse_http_request and
                    \* the building of full_request in send_request
    web             \* the web UI: its globals, its threads and the tester
                    \* process it launched

vars ==
    <<cfg, net, files, run, queue, task, finished, completed, results,
      correct_count, stats, cli, wire, web>>

NoOutcome == Outcome(0, <<>>, <<>>, FALSE)

NoResult ==
    [file |-> <<>>, file_path |-> <<>>, type |-> "", is_correct |-> FALSE,
     status_code |-> 0, reason |-> <<>>, expected_blocked |-> FALSE,
     content |-> <<>>]

NoStats ==
    [total_count |-> 0, correct_count |-> 0, black_total |-> 0,
     white_total |-> 0, black_blocked_correctly |-> 0,
     white_blocked_incorrectly |-> 0]

(***************************************************************************)
(* main: the options --target and --timeout.                               *)
(***************************************************************************)
TxtHttpScheme ==
    <<"h", "t", "t", "p", ":", "/", "/">>

TxtHttpsScheme ==
    <<"h", "t", "t", "p", "s", ":", "/", "/">>

TxtSchemeSep ==
    <<":", "/", "/">>

TxtHttps ==
    <<"h", "t", "t", "p", "s">>

\* parse_target_url, for a target without userinfo, query or fragment:
\* ok = FALSE when urlparse's port raises ValueError; otherwise target_host
\* is "host:port" with the host in lower case and the port of the URL or
\* the default port of the scheme
parse_target_url(target) ==
    LET stripped == Strip(target)
        url      == IF MatchAt(stripped, TxtHttpScheme, 1)
                       \/ MatchAt(stripped, TxtHttpsScheme, 1)
                    THEN stripped ELSE TxtHttpScheme \o stripped
        at       == FindFrom(url, TxtSchemeSep, 1)
        scheme   == Take(url, at - 1)
        netloc   == SplitOnce(Drop(url, at + Len(TxtSchemeSep)), <<"/">>)[1]
        hp       == SplitOnce(netloc, <<":">>)
        port_str == IF Len(hp) = 2 THEN hp[2] ELSE <<>>
        protocol == IF scheme = TxtHttps THEN "https" ELSE "http"
        bad      == [ok |-> FALSE, target_host |-> <<>>, protocol |-> protocol]
    IN  IF port_str # <<>> /\ \E i \in 1..Len(port_str) : ~IsDigit(port_str[i])
        THEN bad
        ELSE IF port_str # <<>> /\ NatOfDigits(port_str) > 65535
        THEN bad
        ELSE [ok          |-> TRUE,
              target_host |-> LowerStr(hp[1]) \o <<":">>
                              \o StrOfNat(IF port_str # <<>> THEN NatOfDigits(port_str)
                                          ELSE IF protocol = "https" THEN 443
                                          ELSE 80),
              protocol    |-> protocol]

\* the digits of d without its trailing zeros
RECURSIVE DropZeros(_)
DropZeros(d) ==
    IF d # <<>> /\ d[Len(d)] = "0" THEN DropZeros(Take(d, Len(d) - 1)) ELSE d

\* float(s) succeeds, for a decimal numeral without sign and exponent:
\* digits with at most one point and at least one digit, whitespace around
FloatOk(s) ==
    LET t  == Strip(s)
        wf == SplitOnce(t, <<".">>)
    IN  /\ \A k \in 1..Len(wf) : \A i \in 1..Len(wf[k]) : IsDigit(wf[k][i])
        /\ \E k \in 1..Len(wf) : wf[k] # <<>>

\* float(s), for FloatOk(s): the whole part and the digits after the point
FloatOf(s) ==
    LET wf == SplitOnce(Strip(s), <<".">>)
    IN  [whole |-> NatOfDigits(wf[1]),
         frac  |-> IF Len(wf) = 2 THEN DropZeros(wf[2]) ELSE <<>>]

\* a variant that falls back to no time at all
TimeoutOnErrorZero ==
    <<[whole |-> 0, frac |-> <<>>], [whole |-> 0, frac |-> <<>>]>>

\* `except (ValueError, IndexError): timeout = (10.0, 30.0)`
TimeoutOnError ==
    <<[whole |-> 10, frac |-> <<>>], [whole |-> 30, frac |-> <<>>]>>

\* the timeout pair that main passes on for --timeout: one number is both
\* timeouts, two or more give the connect and the read timeout, and a part
\* that is no number gives the default pair
ParseTimeout(arg) ==
    LET timeout_parts == SplitOn(arg, <<",">>)
    IN  IF Len(timeout_parts) = 1
        THEN IF FloatOk(Strip(timeout_parts[1]))
             THEN <<FloatOf(Strip(timeout_parts[1])), FloatOf(Strip(timeout_parts[1]))>>
             ELSE TimeoutOnError
        ELSE IF FloatOk(Strip(timeout_parts[1])) /\ FloatOk(Strip(timeout_parts[2]))
             THEN <<FloatOf(Strip(timeout_parts[1])), FloatOf(Strip(timeout_parts[2]))>>
             ELSE TimeoutOnError

UrlT8 ==
    <<"h", "t", "t", "p", ":", "/", "/", "t", ":", "8">>

UrlUpperHttps ==
    <<"h", "t", "t", "p", "s", ":", "/", "/", "T">>

UrlBare ==
    <<"t">>

UrlBadPort ==
    <<"h", "t", "t", "p", ":", "/", "/", "t", ":", "z">>

TimeoutDefaultArg ==
    <<"1", "0", ",", "3", "0">>

TimeoutOne ==
    <<"5">>

TimeoutWord ==
    <<"a", "b", "c">>

TimeoutHalf ==
    <<"1", ",">>

TimeoutSpaced ==
    <<"2", ",", SP, "3", ".", "5", "0", LF>>

\* the --target values of the model that parse_target_url accepts
TargetUrls == {UrlT8, UrlUpperHttps, UrlBare}

\* the --target and --timeout values of the command lines of the model
MainArgs ==
    {[target |-> <<>>,          timeout |-> TimeoutDefaultArg],
     [target |-> UrlBadPort,    timeout |-> TimeoutDefaultArg],
     [target |-> UrlT8,         timeout |-> TimeoutDefaultArg],
     [target |-> UrlT8,         timeout |-> TimeoutWord],
     [target |-> UrlT8,         timeout |-> TimeoutHalf],
     [target |-> UrlUpperHttps, timeout |-> TimeoutOne],
     [target |-> UrlBare,       timeout |-> TimeoutSpaced]}

\* what test_directory gets as target_host for them
ResolvedTargets == {parse_target_url(u).target_host : u \in TargetUrls}

\* the values of the pure steps on the inputs of the model: the status line
\* of every response, and what send_request has done before its retry loop
\* for every sample content, target and protocol
Contents ==
    {<<>>, ContentA, ContentNoHost, ContentBadLine, ContentBadPort, ContentPost}

Targets == {<<>>, TargetT8, TargetBadPort}

Protocols == {"http", "https"}

ParsedRequest == [content \in Contents |-> parse_http_request(content)]

ParsedResponse == [response_str \in Responses |-> ParseResponse(response_str)]

PreparedRequest ==
    [content \in Contents, target_host \in Targets \cup ResolvedTargets,
     protocol \in Protocols |->
        LET req == ParsedRequest[content]
        IN  Prepare(req.request_line, req.headers, req.body, target_host, protocol)]

\* no sample is on its way through the parser by itself
NoWire == [pc |-> "none"]

\* no web UI runs
NoWeb == [pc |-> "none"]

\* a task that was submitted and has not started
NewTask ==
    [pc       |-> "queued",  \* "queued", "attempt", "backoff", "done"
     attempt  |-> 0,         \* the loop variable of send_request
     real     |-> 0,         \* network deliveries made
     lost     |-> 0,         \* attempts skipped by the simulated loss
     resets   |-> 0,         \* attempts ended by ConnectionResetError
     sleeps   |-> 0,         \* time.sleep(1) calls
     last     |-> "none",    \* how the latest attempt ended
     entered  |-> FALSE,     \* send_request reached its retry loop
     dest     |-> <<>>,      \* <<host, port>> of sock.connect((host, port))
     received |-> <<>>,      \* response_str of the latest attempt that read one
     sent     |-> "no",      \* "returned" or "raised" once the task is done
     outcome  |-> NoOutcome, \* what send_request returned
     blocked  |-> FALSE,     \* actually_blocked
     result   |-> NoResult]  \* the dictionary of test_file_wrapper

\* the submitted tasks
Tasks == DOMAIN task

(***************************************************************************)
(* The worker: test_file_wrapper -> test_file_content -> send_request.     *)
(***************************************************************************)
\* a variant with a classifier that keeps its flag between calls: once a
\* sample was classified as blocked, every later one is
ReturnedSticky(t, file, c, o) ==
    LET actually_blocked ==
            \/ ActuallyBlocked(o, c.custom_code, c.rst_detect, c.keyword)
            \/ \E j \in Tasks : task[j].blocked
    IN  [t EXCEPT !.pc      = "done",
                  !.sent    = "returned",
                  !.outcome = o,
                  !.blocked = actually_blocked,
                  !.result  = VerdictResult(file,
                                  IsCorrect(file.is_black, actually_blocked), o)]

\* test_file_content after send_request returned o
Returned(t, file, c, o) ==
    LET actually_blocked == ActuallyBlocked(o, c.custom_code, c.rst_detect, c.keyword)
    IN  [t EXCEPT !.pc      = "done",
                  !.sent    = "returned",
                  !.outcome = o,
                  !.blocked = actually_blocked,
                  !.result  = VerdictResult(file,
                                  IsCorrect(file.is_black, actually_blocked), o)]

\* a variant in which the exception leaves the task: the future holds no
\* result dictionary
RaisedPropagates(t, file, c, error_str) ==
    [t EXCEPT !.pc = "done", !.sent = "raised"]

\* the except branch of test_file_wrapper
Raised(t, file, c, error_str) ==
    [t EXCEPT !.pc     = "done",
              !.sent   = "raised",
              !.result = ErrorResult(file, c.debug, error_str)]

\* a variant without the `packet_loss_rate > 0` guard that compares with <=
IsLostInclusive(packet_loss_rate, u) == u <= packet_loss_rate

\* a variant with the comparison reversed
IsLostReversed(packet_loss_rate, u) == packet_loss_rate > 0 /\ u > packet_loss_rate

\* the simulated loss: packet_loss_rate > 0 and random.random() < packet_loss_rate
IsLost(packet_loss_rate, u) == packet_loss_rate > 0 /\ u < packet_loss_rate

\* a variant that stops retrying one attempt early
CanRetryEarly(attempt, max_retries) == attempt < max_retries - 2

\* a variant that never retries
CanRetryNever(attempt, max_retries) == FALSE

\* `attempt < max_retries - 1`: a failed attempt is retried
CanRetry(attempt, max_retries) == attempt < max_retries - 1

\* a variant in which an iteration does not advance the loop variable
NextAttemptSame(attempt) == attempt

\* `for attempt in range(max_retries)`: the next value of the loop variable
NextAttempt(attempt) == attempt + 1

\* a variant that starts the next attempt without the backoff sleep
FailedWithoutSleep(t, file, c, kind, o) ==
    LET u == [t EXCEPT !.real = @ + 1, !.last = kind,
                       !.resets = IF kind = "reset" THEN @ + 1 ELSE @]
    IN  IF CanRetry(t.attempt, c.max_retries)
        THEN [u EXCEPT !.pc = "attempt", !.attempt = @ + 1]
        ELSE Returned(u, file, c, o)

\* a variant that reports a reset seen on any attempt of the sample
FailedRemembersReset(t, file, c, kind, o) ==
    LET u == [t EXCEPT !.real = @ + 1, !.last = kind,
                       !.resets = IF kind = "reset" THEN @ + 1 ELSE @]
    IN  IF CanRetry(t.attempt, c.max_retries)
        THEN [u EXCEPT !.pc = "backoff", !.sleeps = @ + 1]
        ELSE Returned(u, file, c, IF u.resets > 0 THEN ResetOutcome ELSE o)

\* a real attempt that raised: socket.timeout, ConnectionResetError, Exception
Failed(t, file, c, kind, o) ==
    LET u == [t EXCEPT !.real = @ + 1, !.last = kind,
                       !.resets = IF kind = "reset" THEN @ + 1 ELSE @]
    IN  IF CanRetry(t.attempt, c.max_retries)
        THEN [u EXCEPT !.pc = "backoff", !.sleeps = @ + 1]
        ELSE Returned(u, file, c, o)

\* the start of a task in a pool thread: the file is read and parsed, and
\* send_request runs up to its retry loop
Started(file, c) ==
    IF ~file.readable THEN Raised(NewTask, file, c, TxtNoSuchFile)
    ELSE LET prep == PreparedRequest[file.content, c.target_host, c.protocol]
         IN  IF prep.kind = "return" THEN Returned(NewTask, file, c, prep.outcome)
             ELSE IF prep.kind = "raise" THEN Raised(NewTask, file, c, prep.err)
             ELSE LET t == [NewTask EXCEPT !.entered = TRUE,
                                           !.dest = <<prep.host, prep.port>>]
                  IN  IF c.max_retries > 0
                      THEN [t EXCEPT !.pc = "attempt"]
                      ELSE Returned(t, file, c, AllFailedOutcome(c.max_retries))

Running == {i \in Tasks : task[i].pc \in {"attempt", "backoff"}}

\* what changes when task i takes a step to t: a finished task's future is done
Step(i, t) ==
    /\ task' = [task EXCEPT ![i] = t]
    /\ finished' = IF t.pc = "done" THEN finished \cup {i} ELSE finished
    /\ UNCHANGED <<cfg, net, files, run, completed, results, correct_count, stats,
                   cli, wire, web>>

\* a variant of the pool that starts a thread for every task
PoolUnbounded(busy, max_workers) == TRUE

\* ThreadPoolExecutor(max_workers=threads): a task leaves the work queue
\* when one of the at most max_workers threads is free
PoolHasFreeThread(busy, max_workers) == busy < max_workers

\* a pool thread takes the next task of the work queue
WorkerStart ==
    /\ run = "Running"
    /\ queue # <<>>
    /\ PoolHasFreeThread(Cardinality(Running), cfg.threads)
    /\ queue' = Tail(queue)
    /\ Step(Head(queue), Started(files[Head(queue)], cfg))

\* an attempt skipped by the simulated loss: sleep, then the next iteration
AttemptLost(i) ==
    /\ task[i].pc = "attempt"
    /\ \E u \in RandomDraws : IsLost(cfg.packet_loss_rate, u)
    /\ Step(i, [task[i] EXCEPT !.pc = "backoff", !.lost = @ + 1,
                               !.sleeps = @ + 1, !.last = "loss"])
    /\ UNCHANGED queue

\* a real attempt starts when the draw is not below the loss rate
Delivers(i) ==
    /\ task[i].pc = "attempt"
    /\ \E u \in RandomDraws : ~IsLost(cfg.packet_loss_rate, u)

\* socket.timeout out of connect, the TLS handshake or sendall
AttemptTimeout(i) ==
    /\ Delivers(i)
    /\ "timeout" \in net.failures
    /\ Step(i, Failed(task[i], files[i], cfg, "timeout",
                      TimeoutOutcome(cfg.max_retries)))
    /\ UNCHANGED queue

\* ConnectionResetError out of connect, the handshake, sendall or recv
AttemptReset(i) ==
    /\ Delivers(i)
    /\ "reset" \in net.failures
    /\ Step(i, Failed(task[i], files[i], cfg, "reset", ResetOutcome))
    /\ UNCHANGED queue

\* any other exception, such as a refused connection
AttemptError(i) ==
    /\ Delivers(i)
    /\ "error" \in net.failures
    /\ Step(i, Failed(task[i], files[i], cfg, "error",
                      ErrorOutcome(cfg.debug, TxtRefused)))
    /\ UNCHANGED queue

\* the request was sent and the reading ended, by the peer closing or by a
\* read timeout (which the receive loop catches): the status line is parsed
AttemptResponse(i) ==
    /\ Delivers(i)
    /\ \E how \in net.ends, response_str \in net.responses :
          LET p == ParsedResponse[response_str]
              t == [task[i] EXCEPT !.received = response_str]
          IN  Step(i, IF p.kind = "return"
                      THEN Returned([t EXCEPT !.real = @ + 1, !.last = how],
                                    files[i], cfg, p.outcome)
                      ELSE Failed(t, files[i], cfg, "error",
                                  ErrorOutcome(cfg.debug, p.err)))
    /\ UNCHANGED queue

\* time.sleep(1) returns and `continue` goes to the next iteration, or the
\* loop is over and send_request returns after it
BackoffDone(i) ==
    /\ task[i].pc = "backoff"
    /\ LET n == NextAttempt(task[i].attempt)
       IN  Step(i, IF n < cfg.max_retries
                   THEN [task[i] EXCEPT !.pc = "attempt", !.attempt = n]
                   ELSE Returned([task[i] EXCEPT !.attempt = n], files[i], cfg,
                                 AllFailedOutcome(cfg.max_retries)))
    /\ UNCHANGED queue

(***************************************************************************)
(* The orchestrator: test_directory.                                       *)
(***************************************************************************)
\* the directory is looked up, the samples are listed and all are submitted
StartRun ==
    /\ cli.pc = "called"
    /\ run = "Idle"
    /\ IF ~cfg.directory_exists
       THEN /\ run' = "Aborted"
            /\ UNCHANGED <<queue, task>>
       ELSE /\ run' = "Running"
            /\ queue' = [i \in 1..Len(files) |-> i]
            /\ task' = [i \in 1..Len(files) |-> NewTask]
    /\ completed' = 0
    /\ results' = <<>>
    /\ correct_count' = 0
    /\ UNCHANGED <<cfg, net, files, finished, stats, cli, wire, web>>

\* a variant in which a yielded future stays among the finished ones
YieldedAgain(fin, i) == fin

\* as_completed yields a finished future once: what is left to yield
Yielded(fin, i) == fin \ {i}

\* a variant that counts every verdict
AddCorrectAlways(count, is_correct) == count + 1

\* `if result['is_correct']: correct_count += 1`
AddCorrect(count, is_correct) == IF is_correct THEN count + 1 ELSE count

\* one iteration of `for future in as_completed(futures)`: the main thread
\* takes a finished future, in no particular order among the finished ones
Consume(i) ==
    /\ run = "Running"
    /\ i \in finished
    /\ finished' = Yielded(finished, i)
    /\ completed' = completed + 1
    /\ results' = Append(results, task[i].result)
    /\ correct_count' = AddCorrect(correct_count, task[i].result.is_correct)
    /\ UNCHANGED <<cfg, net, files, run, queue, task, stats, cli, wire, web>>

\* sum(1 for r in results if r['expected_blocked'])
BlackTotal(rs) == Cardinality({k \in 1..Len(rs) : rs[k].expected_blocked})

\* a variant that counts the verdicts that are not correct
WhiteTotalAsIncorrect(rs) == Cardinality({k \in 1..Len(rs) : ~rs[k].is_correct})

\* sum(1 for r in results if not r['expected_blocked'])
WhiteTotal(rs) == Cardinality({k \in 1..Len(rs) : ~rs[k].expected_blocked})

\* sum(1 for r in results if r['expected_blocked'] and r['is_correct'])
BlackBlockedCorrectly(rs) ==
    Cardinality({k \in 1..Len(rs) : rs[k].expected_blocked /\ rs[k].is_correct})

\* sum(1 for r in results if not r['expected_blocked'] and not r['is_correct'])
WhiteBlockedIncorrectly(rs) ==
    Cardinality({k \in 1..Len(rs) : ~rs[k].expected_blocked /\ ~rs[k].is_correct})

\* a variant in which the loop ends one future early
AllYieldedButOne(yielded, submitted) == yielded >= submitted - 1

\* `for future in as_completed(futures)` ends when every future was yielded
AllYielded(yielded, submitted) == yielded = submitted

\* every future was yielded: the counts are computed and the summary is
\* printed; the percentages divide by total_count
Summarise ==
    /\ run = "Running"
    /\ AllYielded(completed, Len(files))
    /\ stats' = [total_count               |-> Len(files),
                 correct_count             |-> correct_count,
                 black_total               |-> BlackTotal(results),
                 white_total               |-> WhiteTotal(results),
                 black_blocked_correctly   |-> BlackBlockedCorrectly(results),
                 white_blocked_incorrectly |-> WhiteBlockedIncorrectly(results)]
    /\ run' = IF Len(files) = 0 THEN "Crashed" ELSE "Completed"
    /\ UNCHANGED <<cfg, net, files, queue, task, finished, completed, results,
                   correct_count, cli, wire, web>>

Next ==
    \/ StartRun
    \/ WorkerStart
    \/ \E i \in Tasks : AttemptLost(i)
    \/ \E i \in Tasks : AttemptTimeout(i)
    \/ \E i \in Tasks : AttemptReset(i)
    \/ \E i \in Tasks : AttemptError(i)
    \/ \E i \in Tasks : AttemptResponse(i)
    \/ \E i \in Tasks : BackoffDone(i)
    \/ \E i \in Tasks : Consume(i)
    \/ Summarise

(***************************************************************************)
(* main: the process.                                                      *)
(***************************************************************************)
\* the exit of the process: sys.exit(1) and an uncaught exception both give
\* the status 1, a return of main the status 0
Exited(c, status) == [c EXCEPT !.pc = "exited", !.exit_code = status]

\* main up to its call of test_directory: without --target it prints the
\* help and exits with 1; an exception of parse_target_url ends the process;
\* a --timeout that cannot be parsed is replaced by the default
MainStart ==
    /\ cli.pc = "main"
    /\ IF cli.target = <<>>
       THEN cli' = Exited(cli, 1) /\ UNCHANGED cfg
       ELSE LET parsed == parse_target_url(cli.target)
            IN  IF ~parsed.ok
                THEN cli' = Exited(cli, 1) /\ UNCHANGED cfg
                ELSE /\ cli' = [cli EXCEPT !.pc = "called",
                                           !.timeout = ParseTimeout(cli.timeout_arg)]
                     /\ cfg' = [cfg EXCEPT !.target_host = parsed.target_host,
                                           !.protocol = parsed.protocol]
    /\ UNCHANGED <<net, files, run, queue, task, finished, completed, results,
                   correct_count, stats, wire, web>>

\* test_directory has returned or raised, and main with it
MainExit ==
    /\ cli.pc = "called"
    /\ run \in {"Completed", "Aborted", "Crashed"}
    /\ cli' = Exited(cli, IF run = "Crashed" THEN 1 ELSE 0)
    /\ UNCHANGED <<cfg, net, files, run, queue, task, finished, completed,
                   results, correct_count, stats, wire, web>>

NextMain ==
    \/ MainStart
    \/ MainExit
    \/ Next

(***************************************************************************)
(* One sample from its text to the bytes on the wire.                      *)
(***************************************************************************)
TxtGet ==
    <<"G", "E", "T">>

TxtPost ==
    <<"P", "O", "S", "T">>

TxtPathA ==
    <<"/", "a">>

TxtHttp10 ==
    <<"H", "T", "T", "P", "/", "1", ".", "0">>

TxtBodyKV ==
    <<"k", "=", "v">>

SampleRepeated ==
    <<"G", "E", "T", SP, "/", "a", SP, "H", "T", "T", "P", "/", "1", ".",
      "1", LF, "B", ":", SP, "1", LF, "A", ":", SP, "2", LF, "B", ":", SP,
      "3", LF, LF>>

SampleCrLf ==
    <<"P", "O", "S", "T", SP, "/", "b", CR, LF, "H", "o", "s", "t", ":",
      SP, "x", CR, LF, CR, LF, "k", "=", "v", CR, LF>>

SampleTrailing ==
    <<"P", "O", "S", "T", SP, "/", "b", LF, "A", ":", SP, "1", LF, LF, "k",
      "=", "v", SP, LF, LF, LF>>

SampleBlankInBody ==
    <<"P", "O", "S", "T", SP, "/", "b", LF, "A", ":", SP, "1", LF, LF, "k",
      LF, LF, "v", LF>>

SampleOneNewline ==
    <<"P", "O", "S", "T", SP, "/", "b", LF, "A", ":", SP, "1", LF, LF, "k",
      "=", "v", LF>>

SampleNoColon ==
    <<"G", "E", "T", SP, "/", "a", LF, "n", "o", "c", "o", "l", "o", "n",
      LF, "A", SP, ":", SP, "1", LF, LF>>

SampleSpaceLine ==
    <<"G", "E", "T", SP, "/", "a", LF, "A", ":", SP, "1", LF, SP, LF, "B",
      ":", SP, "2", LF>>

SampleMixedCase ==
    <<"P", "O", "S", "T", SP, "/", "b", LF, "C", "o", "n", "t", "e", "n",
      "t", "-", "l", "e", "n", "g", "t", "h", ":", SP, "3", LF, LF, "k",
      "=", "v", LF>>

TxtContentLengthMixed ==
    <<"C", "o", "n", "t", "e", "n", "t", "-", "l", "e", "n", "g", "t", "h">>

\* the largest number of headers of a generated sample
MaxHeaders == 2

\* the headers of the generated samples: name and value
HeaderPairs ==
    {<<TxtHost, <<"x">>>>,
     <<(<<"A">>), <<"1">>>>,
     <<(<<"a">>), <<"x", ":", "y">>>>,
     <<TxtContentLength, <<"3">>>>,
     <<TxtContentLengthLower, <<"0">>>>,
     <<TxtContentLengthMixed, <<"3">>>>}

\* the header lists of the generated samples: no name twice
HeaderSeqs ==
    {h \in UNION {[1..n -> HeaderPairs] : n \in 0..MaxHeaders} :
        \A i, j \in DOMAIN h : i # j => h[i][1] # h[j][1]}

\* the generated samples, as structured requests
RequestSpecs ==
    [method  : {TxtGet, TxtPost},
     path    : {TxtPathA},
     version : {<<>>, TxtHttp10},
     headers : HeaderSeqs,
     body    : {<<>>, TxtBodyKV}]

RECURSIVE HeaderLinesOfFile(_)
HeaderLinesOfFile(h) ==
    IF h = <<>> THEN <<>>
    ELSE h[1][1] \o <<":", SP>> \o h[1][2] \o <<LF>> \o HeaderLinesOfFile(Tail(h))

\* the text of a sample file for a structured request: the request line,
\* one `name: value` line per header, a blank line, the body
Serialize(spec) ==
    spec.method \o <<SP>> \o spec.path
    \o (IF spec.version # <<>> THEN <<SP>> \o spec.version ELSE <<>>) \o <<LF>>
    \o HeaderLinesOfFile(spec.headers)
    \o <<LF>> \o spec.body

\* the sample files written by hand
WireSamples ==
    {<<>>, ContentBadLine, SampleRepeated, SampleCrLf, SampleTrailing,
     SampleBlankInBody, SampleOneNewline, SampleNoColon, SampleSpaceLine,
     SampleMixedCase}

\* not a generated sample
NoSpec == [method |-> <<>>]

\* parse_http_request(content)
ParseSample ==
    /\ wire.pc = "sample"
    /\ wire' = [wire EXCEPT !.pc = "parsed",
                            !.req = parse_http_request(wire.content)]
    /\ UNCHANGED <<cfg, net, files, run, queue, task, finished, completed,
                   results, correct_count, stats, cli, web>>

\* send_request up to full_request, called with a target: it returns when
\* the request line has fewer than two parts; otherwise the headers to send
\* and the request text are built
BuildRequest ==
    /\ wire.pc = "parsed"
    /\ LET prep == Prepare(wire.req.request_line, wire.req.headers,
                           wire.req.body, cfg.target_host, cfg.protocol)
       IN  IF prep.kind # "loop"
           THEN wire' = [wire EXCEPT !.pc = "refused"]
           ELSE wire' = [wire EXCEPT
                           !.pc = "built",
                           !.headers_to_send =
                               HeadersToSend(wire.req.headers, wire.req.body),
                           !.full_request = prep.full_request]
    /\ UNCHANGED <<cfg, net, files, run, queue, task, finished, completed,
                   results, correct_count, stats, cli, web>>

NextWire ==
    \/ ParseSample
    \/ BuildRequest

(***************************************************************************)
(* The web control surface: start_test, run_test, stop_test and the        *)
(* tester process it launches.                                             *)
(***************************************************************************)
\* the largest number of start_test requests
MaxStarts == 2

\* the largest number of stop_test requests
MaxStops == 1

\* the number of samples of the directory a launched tester goes through
WebSamples == 2

\* the module globals before any request; current_process = 0 stands for
\* None, any other value is the position of the process in web.procs
WebIdle ==
    [pc              |-> "serving",
     is_testing      |-> FALSE,
     current_process |-> 0,
     starts          |-> <<>>,  \* the start_test requests with their threads
     procs           |-> <<>>,  \* the tester processes launched
     stops           |-> <<>>,  \* the stop_test requests
     events          |-> <<>>,  \* result_queue
     puts            |-> 0,     \* result_queue.put calls so far
     gets            |-> <<>>]  \* the get_results requests

SetWeb(w) ==
    /\ web' = w
    /\ UNCHANGED <<cfg, net, files, run, queue, task, finished, completed,
                   results, correct_count, stats, cli, wire>>

\* where the thread of start request k stands
At(k, pc) == k \in DOMAIN web.starts /\ web.starts[k].pc = pc

Goes(k, pc) == [web EXCEPT !.starts[k].pc = pc]

\* the process is over: poll() is not None, its stdout is at end of file
\* once the lines written have been read
Over(p) == web.procs[p].state # "running"

\* result_queue.put({'type': kind, ...}) on state w
Put(w, kind) ==
    [w EXCEPT !.events = Append(@, [kind |-> kind, n |-> w.puts + 1]),
              !.puts = @ + 1]

\* start_test: `if is_testing: return error`
StartCheck ==
    /\ web.pc = "serving"
    /\ Len(web.starts) < MaxStarts
    /\ SetWeb([web EXCEPT !.starts =
                 Append(@, [pc  |-> IF web.is_testing THEN "rejected"
                                    ELSE "accepted",
                            ref |-> 0])])

\* start_test: the command is built, the thread is started and the request
\* returns success
StartThread(k) ==
    /\ At(k, "accepted")
    /\ SetWeb(Goes(k, "spawned"))

\* run_test: `is_testing = True`
RunSetFlag(k) ==
    /\ At(k, "spawned")
    /\ SetWeb([Goes(k, "set") EXCEPT !.is_testing = TRUE])

\* run_test: `current_process = subprocess.Popen(cmd, ...)`
RunPopen(k) ==
    /\ At(k, "set")
    /\ SetWeb([Goes(k, "reading") EXCEPT
                 !.procs = Append(@, [owner |-> k, state |-> "running",
                                      left |-> WebSamples, unread |-> 0]),
                 !.current_process = Len(web.procs) + 1])

\* run_test: `while is_testing and current_process.poll() is None` ends,
\* by the flag, by the end of the process, or by AttributeError on None,
\* which the outer handler catches
RunLoopEnds(k) ==
    /\ At(k, "reading")
    /\ (web.is_testing /\ web.current_process # 0) => Over(web.current_process)
    /\ SetWeb(IF web.is_testing /\ web.current_process = 0
              THEN Put(Goes(k, "finally"), "error")
              ELSE Goes(k, "draining"))

\* run_test, in the loop: readline() returns a line of the process the
\* global names, and the line is queued
RunReadLine(k) ==
    /\ At(k, "reading")
    /\ web.is_testing
    /\ web.current_process # 0
    /\ web.procs[web.current_process].state = "running"
    /\ web.procs[web.current_process].unread > 0
    /\ SetWeb(Put([web EXCEPT !.procs[web.current_process].unread = @ - 1],
                  "log"))

\* run_test: `for line in current_process.stdout` starts on the process the
\* global names now; on None the inner handler prints the error
RunDrainOpen(k) ==
    /\ At(k, "draining")
    /\ SetWeb(IF web.current_process = 0
              THEN Goes(k, "waiting")
              ELSE [Goes(k, "drain_read") EXCEPT
                      !.starts[k].ref = web.current_process])

\* a line of the rest of the output is read and queued
RunDrainLine(k) ==
    /\ At(k, "drain_read")
    /\ web.procs[web.starts[k].ref].unread > 0
    /\ SetWeb(Put([web EXCEPT !.procs[web.starts[k].ref].unread = @ - 1],
                  "log"))

\* the rest of the output is read up to end of file
RunDrainEof(k) ==
    /\ At(k, "drain_read")
    /\ Over(web.starts[k].ref)
    /\ web.procs[web.starts[k].ref].unread = 0
    /\ SetWeb(Goes(k, "waiting"))

\* run_test: `if current_process: current_process.wait()`
RunWaitOpen(k) ==
    /\ At(k, "waiting")
    /\ SetWeb(IF web.current_process = 0
              THEN Goes(k, "finally")
              ELSE [Goes(k, "wait_block") EXCEPT
                      !.starts[k].ref = web.current_process])

\* wait() returns and the completion is queued with the return code of the
\* process the global names; on None the outer handler queues an error
RunWaitDone(k) ==
    /\ At(k, "wait_block")
    /\ Over(web.starts[k].ref)
    /\ SetWeb(Put(Goes(k, "finally"),
                  IF web.current_process = 0 THEN "error" ELSE "complete"))

\* run_test, finally: `is_testing = False`
RunFinallyFlag(k) ==
    /\ At(k, "finally")
    /\ SetWeb([Goes(k, "finally_process") EXCEPT !.is_testing = FALSE])

\* run_test, finally: `current_process = None`
RunFinallyProcess(k) ==
    /\ At(k, "finally_process")
    /\ SetWeb([Goes(k, "ended") EXCEPT !.current_process = 0])

\* the tester process starts the task of its next sample and prints a line
TesterStartsSample(p) ==
    /\ web.pc = "serving"
    /\ p \in DOMAIN web.procs
    /\ web.procs[p].state = "running"
    /\ web.procs[p].left > 0
    /\ SetWeb([web EXCEPT !.procs[p].left = @ - 1,
                          !.procs[p].unread = @ + 1])

\* the tester process ends by itself after its last sample
TesterExits(p) ==
    /\ web.pc = "serving"
    /\ p \in DOMAIN web.procs
    /\ web.procs[p].state = "running"
    /\ web.procs[p].left = 0
    /\ SetWeb([web EXCEPT !.procs[p].state = "exited"])

\* the threads of run_test that have set the flag and not reached finally
Launching ==
    {k \in DOMAIN web.starts :
        web.starts[k].pc \in {"set", "reading", "draining", "drain_read",
                              "waiting", "wait_block"}}

\* stop_test: `if is_testing and current_process:`, else the error answer;
\* `during` records the runs in progress when the request is served
StopCheck ==
    /\ web.pc = "serving"
    /\ Len(web.stops) < MaxStops
    /\ SetWeb([web EXCEPT !.stops =
                 Append(@, [pc     |-> IF web.is_testing /\ web.current_process # 0
                                       THEN "terminate" ELSE "returned",
                            ok     |-> FALSE,
                            during |-> IF web.is_testing THEN Launching
                                       ELSE {}])])

StopAt(s, pc) == s \in DOMAIN web.stops /\ web.stops[s].pc = pc

\* stop_test: `current_process.terminate()`, AttributeError when the global
\* is None by now
StopTerminate(s) ==
    /\ StopAt(s, "terminate")
    /\ SetWeb(IF web.current_process = 0
              THEN [web EXCEPT !.stops[s].pc = "raised"]
              ELSE [web EXCEPT
                      !.stops[s].pc = "clear_flag",
                      !.procs[web.current_process].state =
                          IF @ = "running" THEN "terminated" ELSE @])

\* stop_test: `is_testing = False`
StopClearFlag(s) ==
    /\ StopAt(s, "clear_flag")
    /\ SetWeb([web EXCEPT !.stops[s].pc = "clear_process",
                          !.is_testing = FALSE])

\* stop_test: `current_process = None` and the success answer
StopClearProcess(s) ==
    /\ StopAt(s, "clear_process")
    /\ SetWeb([web EXCEPT !.stops[s].pc = "returned",
                          !.stops[s].ok = TRUE,
                          !.current_process = 0])

\* the largest number of get_results requests
MaxGets == 2

GetAt(g, pc) == g \in DOMAIN web.gets /\ web.gets[g].pc = pc

\* get_results: `results = []`
GetArrives ==
    /\ web.pc = "serving"
    /\ Len(web.gets) < MaxGets
    /\ SetWeb([web EXCEPT !.gets = Append(@, [pc |-> "test", results |-> <<>>])])

\* get_results: `while not result_queue.empty()`, and the answer when the
\* queue is found empty
GetTest(g) ==
    /\ GetAt(g, "test")
    /\ SetWeb([web EXCEPT !.gets[g].pc =
                 IF web.events = <<>> THEN "returned" ELSE "get"])

\* get_results: `results.append(result_queue.get())`; get() waits for an
\* event when the queue is empty
GetTakes(g) ==
    /\ GetAt(g, "get")
    /\ web.events # <<>>
    /\ SetWeb([web EXCEPT !.gets[g].pc = "test",
                          !.gets[g].results = Append(@, Head(web.events)),
                          !.events = Tail(web.events)])

\* the get_results requests, no run producing output
NextQueue ==
    \/ GetArrives
    \/ \E g \in 1..MaxGets :
          \/ GetTest(g)
          \/ GetTakes(g)

\* the runs and the stop requests, nobody reading the results
NextWeb ==
    \/ StartCheck
    \/ StopCheck
    \/ \E k \in 1..MaxStarts :
          \/ StartThread(k)
          \/ RunSetFlag(k)
          \/ RunPopen(k)
          \/ RunLoopEnds(k)
          \/ RunReadLine(k)
          \/ RunDrainOpen(k)
          \/ RunDrainLine(k)
          \/ RunDrainEof(k)
          \/ RunWaitOpen(k)
          \/ RunWaitDone(k)
          \/ RunFinallyFlag(k)
          \/ RunFinallyProcess(k)
    \/ \E p \in 1..MaxStarts :
          \/ TesterStartsSample(p)
          \/ TesterExits(p)
    \/ \E s \in 1..MaxStops :
          \/ StopTerminate(s)
          \/ StopClearFlag(s)
          \/ StopClearProcess(s)

(***************************************************************************)
(* Initial states.                                                         *)
(***************************************************************************)
File(i, content, is_black, readable) ==
    [name     |-> <<"sample", i, IF is_black THEN ".black" ELSE ".white">>,
     path     |-> <<"directory", "/", "sample", i,
                    IF is_black THEN ".black" ELSE ".white">>,
     content  |-> content,
     is_black |-> is_black,
     readable |-> readable]

Config(dir, target, loss, retries, dbg, code, rst, kw, n) ==
    [directory_exists |-> dir,
     target_host      |-> target,
     protocol         |-> "http",
     packet_loss_rate |-> loss,
     max_retries      |-> retries,
     debug            |-> dbg,
     custom_code      |-> code,
     rst_detect       |-> rst,
     keyword          |-> kw,
     threads          |-> n]

\* test_directory called by a program other than main, with the default
\* timeout pair
DirectCall ==
    [pc |-> "called", target |-> <<>>, timeout_arg |-> <<>>,
     timeout |-> TimeoutOnError, exit_code |-> 0]

InitTester ==
    /\ run = "Idle"
    /\ queue = <<>>
    /\ task = <<>>
    /\ finished = {}
    /\ completed = 0
    /\ results = <<>>
    /\ correct_count = 0
    /\ stats = NoStats

InitState ==
    /\ InitTester
    /\ wire = NoWire
    /\ web = NoWeb

InitRest ==
    /\ InitState
    /\ cli = DirectCall

\* a network on which an attempt can end in every way
AnyNet ==
    [failures  |-> {"timeout", "reset", "error"},
     ends      |-> {"closed", "read_timeout"},
     responses |-> Responses]

\* one sample, every configuration
Init ==
    /\ net = AnyNet
    /\ \E content \in Contents, is_black \in BOOLEAN, readable \in BOOLEAN :
          /\ readable \/ content = ContentA
          /\ files = <<File(1, content, is_black, readable)>>
    /\ \E target \in Targets, loss \in LossRates,
          retries \in 1..MaxRetries, dbg \in BOOLEAN, code \in {403, 200},
          rst \in BOOLEAN, kw \in {<<>>, KwForbidden, KwReset} :
          cfg = Config(TRUE, target, loss, retries, dbg, code, rst, kw, 1)
    /\ InitRest

Spec == Init /\ [][Next]_vars

\* the sample kinds of a directory with several samples
RunSamples ==
    {[content |-> ContentA, is_black |-> TRUE, readable |-> TRUE],
     [content |-> ContentA, is_black |-> FALSE, readable |-> TRUE],
     [content |-> ContentA, is_black |-> FALSE, readable |-> FALSE],
     [content |-> ContentBadLine, is_black |-> FALSE, readable |-> TRUE],
     [content |-> <<>>, is_black |-> TRUE, readable |-> TRUE]}

\* two runs: a lossy path to a target that answers 200 or 403 or resets the
\* connection, and a lossless path to a target that answers 403 late or
\* not at all
RunNets ==
    {[loss |-> 50,
      net  |-> [failures  |-> {"reset"},
                ends      |-> {"closed"},
                responses |-> {Resp200, Resp403}]],
     [loss |-> 0,
      net  |-> [failures  |-> {"timeout", "error"},
                ends      |-> {"read_timeout"},
                responses |-> {Resp403}]]}

\* the listings of a directory: sorted(*.black) followed by sorted(*.white)
Listings ==
    {l \in UNION {[1..n -> RunSamples] : n \in 0..MaxSamples} :
        \A i, j \in DOMAIN l : i < j => (l[i].is_black \/ ~l[j].is_black)}

\* several samples in a pool of several threads
InitRun ==
    /\ \E l \in Listings :
          files = [i \in DOMAIN l |->
                      File(i, l[i].content, l[i].is_black, l[i].readable)]
    /\ \E dir \in BOOLEAN, rn \in RunNets, n \in 1..MaxThreads :
          /\ cfg = Config(dir, <<>>, rn.loss, 2, FALSE, 403, TRUE, <<>>, n)
          /\ net = rn.net
    /\ InitRest

SpecRun == InitRun /\ [][Next]_vars

\* the pool threads and the main thread are scheduled, and every socket
\* call returns or times out
SpecRunFair == SpecRun /\ WF_vars(Next)

\* the command line: main is about to start; cfg holds the options that
\* argparse has converted, the target not yet among them
InitMain ==
    /\ \E l \in Listings :
          files = [i \in DOMAIN l |->
                      File(i, l[i].content, l[i].is_black, l[i].readable)]
    /\ \E dir \in BOOLEAN, rn \in RunNets :
          /\ cfg = Config(dir, <<>>, rn.loss, 2, FALSE, 403, TRUE, <<>>, MaxThreads)
          /\ net = rn.net
    /\ \E a \in MainArgs :
          cli = [pc |-> "main", target |-> a.target, timeout_arg |-> a.timeout,
                 timeout |-> <<>>, exit_code |-> 0]
    /\ InitState

SpecMain == InitMain /\ [][NextMain]_vars

\* one sample, written by hand or generated, before it is parsed; nothing
\* else runs
InitWire ==
    /\ \/ \E content \in WireSamples :
             wire = [pc |-> "sample", spec |-> NoSpec, content |-> content,
                     req |-> <<>>, headers_to_send |-> <<>>,
                     full_request |-> <<>>]
       \/ \E spec \in RequestSpecs :
             wire = [pc |-> "sample", spec |-> spec, content |-> Serialize(spec),
                     req |-> <<>>, headers_to_send |-> <<>>,
                     full_request |-> <<>>]
    /\ cfg = Config(TRUE, TargetT8, 0, 1, FALSE, 403, FALSE, <<>>, 1)
    /\ net = AnyNet
    /\ files = <<>>
    /\ cli = DirectCall
    /\ web = NoWeb
    /\ InitTester

SpecWire == InitWire /\ [][NextWire]_vars

\* the web control surface after its start, no request served yet
InitWeb ==
    /\ web = WebIdle
    /\ wire = NoWire
    /\ cfg = Config(TRUE, TargetT8, 0, 1, FALSE, 403, FALSE, <<>>, 1)
    /\ net = AnyNet
    /\ files = <<>>
    /\ cli = DirectCall
    /\ InitTester

SpecWeb == InitWeb /\ [][NextWeb]_vars

\* the largest number of events left in the queue by the runs so far
MaxEvents == 3

\* what the runs so far have left in result_queue: log lines, and after
\* them the completion or the error of the run
QueuesLeft ==
    {[i \in 1..n |-> [kind |-> IF i = n THEN last ELSE "log", n |-> i]] :
        n \in 0..MaxEvents, last \in {"log", "complete", "error"}}

\* the web control surface with no run in progress and no request served
InitQueue ==
    /\ \E q \in QueuesLeft :
          web = [WebIdle EXCEPT !.events = q, !.puts = Len(q)]
    /\ wire = NoWire
    /\ cfg = Config(TRUE, TargetT8, 0, 1, FALSE, 403, FALSE, <<>>, 1)
    /\ net = AnyNet
    /\ files = <<>>
    /\ cli = DirectCall
    /\ InitTester

SpecQueue == InitQueue /\ [][NextQueue]_vars

(***************************************************************************)
(* Properties.                                                             *)
(***************************************************************************)
Done(i) == task[i].pc = "done"

\* send_request returned after its retry loop used every attempt and the
\* last one gave no response
Exhausted(i) ==
    /\ Done(i) /\ task[i].entered /\ task[i].sent = "returned"
    /\ task[i].last \in {"loss", "timeout", "reset", "error"}

\* the step is one by task i
Moves(i) == task'[i] # task[i]

\* C1: actually_blocked is exactly the OR of the three signals (status code
\* equal to custom_code; rst_detect and a detected reset; a keyword that is
\* set and occurs in the response body or in the reason), is_correct is
\* (is_black = actually_blocked), and a black sample answered 200 with the
\* keyword absent is not correct.
C1_VerdictIsOrOfSignals ==
    \A i \in Tasks :
        (Done(i) /\ task[i].sent = "returned") =>
            LET o  == task[i].outcome
                kw == cfg.keyword
            IN  /\ task[i].blocked <=>
                      \/ o.status_code = cfg.custom_code
                      \/ cfg.rst_detect /\ o.is_rst_detected
                      \/ /\ kw # <<>>
                         /\ \/ \E k \in 1..(Len(o.response_body) + 1) :
                                  MatchAt(o.response_body, kw, k)
                            \/ \E k \in 1..(Len(o.reason) + 1) :
                                  MatchAt(o.reason, kw, k)
                /\ task[i].result.is_correct <=> (files[i].is_black <=> task[i].blocked)
                /\ task[i].result.status_code = o.status_code
                /\ task[i].result.reason = o.reason
                /\ (/\ files[i].is_black
                    /\ o.status_code = 200
                    /\ cfg.custom_code = 403
                    /\ kw # <<>>
                    /\ ~Contains(o.response_body, kw)
                    /\ ~Contains(o.reason, kw)) => ~task[i].result.is_correct

\* a black sample answered 200, the keyword Forbidden absent: not correct;
\* the reason alone carries the keyword in another run
C1_Witness ==
    \E i \in Tasks :
        /\ Done(i) /\ files[i].is_black
        /\ task[i].outcome.status_code = 200
        /\ cfg.custom_code = 403
        /\ cfg.keyword = KwForbidden
        /\ ~Contains(task[i].outcome.response_body, KwForbidden)
        /\ ~task[i].result.is_correct

\* C2: simulated losses plus real deliveries never exceed max_retries, and
\* the loop variable counts a loss and a real failure alike: at the top of
\* iteration `attempt` exactly `attempt` attempts were used.
C2_AttemptsWithinBudget ==
    \A i \in Tasks :
        /\ task[i].real + task[i].lost <= cfg.max_retries
        /\ task[i].pc = "attempt" => task[i].real + task[i].lost = task[i].attempt
        /\ task[i].pc = "backoff" => task[i].real + task[i].lost = task[i].attempt + 1

\* losses and real failures together used the whole budget of three
C2_Witness ==
    \E i \in Tasks :
        /\ Done(i) /\ cfg.max_retries = 3
        /\ task[i].lost >= 1 /\ task[i].real >= 1
        /\ task[i].real + task[i].lost = 3

\* C3 as stated: an attempt that is not the last allowed one and ends in a
\* timeout of either phase, a reset or another error goes to one backoff
\* sleep, and the sleep to a further attempt.
C3_EveryTimeoutRetried ==
    [][\A i \in Tasks :
          /\ (/\ task[i].pc = "attempt" /\ Moves(i)
              /\ task'[i].last \in {"timeout", "read_timeout", "reset", "error"}
              /\ task[i].attempt < cfg.max_retries - 1)
             => /\ task'[i].pc = "backoff"
                /\ task'[i].sleeps = task[i].sleeps + 1
          /\ (/\ task[i].pc = "backoff" /\ Moves(i)
              /\ task[i].last # "loss")
             => /\ task'[i].pc = "attempt"
                /\ task'[i].attempt = task[i].attempt + 1]_vars

\* C3, amended: an attempt that is not the last allowed one and ends in a
\* timeout raised by connect, the handshake or the send, in a reset or in
\* another error goes to one backoff sleep and then to a further attempt;
\* a read timeout while receiving only ends the reading, and the attempt
\* returns what the received bytes parse to, without sleep or retry.
C3_RaisedFailuresRetried ==
    [][\A i \in Tasks :
          /\ (/\ task[i].pc = "attempt" /\ Moves(i)
              /\ task'[i].last \in {"timeout", "reset", "error"}
              /\ task[i].attempt < cfg.max_retries - 1)
             => /\ task'[i].pc = "backoff"
                /\ task'[i].sleeps = task[i].sleeps + 1
                /\ task'[i].attempt = task[i].attempt
          /\ (/\ task[i].pc = "backoff" /\ Moves(i)
              /\ task[i].last # "loss")
             => /\ task'[i].pc = "attempt"
                /\ task'[i].attempt = task[i].attempt + 1
                /\ task'[i].sleeps = task[i].sleeps
          /\ (/\ task[i].pc = "attempt" /\ Moves(i)
              /\ task'[i].last = "read_timeout")
             => /\ task'[i].pc = "done"
                /\ task'[i].sent = "returned"
                /\ task'[i].sleeps = task[i].sleeps
                /\ task'[i].outcome.is_rst_detected = FALSE]_vars

\* a timeout was retried after one sleep, and the next attempt's read timed
\* out and returned while an attempt was still left
C3_Witness ==
    \E i \in Tasks :
        /\ Done(i) /\ task[i].last = "read_timeout"
        /\ task[i].attempt = 1 /\ task[i].sleeps = 1 /\ task[i].real = 2
        /\ cfg.max_retries = 3

C5_ResetOnEveryAttempt ==
    \A i \in Tasks :
        (/\ Done(i) /\ task[i].entered
         /\ cfg.packet_loss_rate = 0
         /\ task[i].resets = task[i].real) =>
            /\ task[i].real = cfg.max_retries
            /\ task[i].sleeps = cfg.max_retries - 1
            /\ task[i].sent = "returned"
            /\ task[i].outcome.is_rst_detected
            /\ (cfg.rst_detect /\ files[i].is_black) => task[i].result.is_correct

\* Scenario D: three resets, max_retries 3, rst_detect, a black sample
C5_Witness ==
    \E i \in Tasks :
        /\ Done(i) /\ cfg.packet_loss_rate = 0 /\ cfg.max_retries = 3
        /\ task[i].resets = 3 /\ task[i].real = 3
        /\ cfg.rst_detect /\ files[i].is_black
        /\ task[i].outcome.is_rst_detected
        /\ task[i].result.is_correct

\* C6: with loss rate 0 no attempt is skipped by the loss simulation: every
\* attempt made is a real delivery.
C6_NoLossAtRateZero ==
    cfg.packet_loss_rate = 0 =>
        \A i \in Tasks :
            /\ task[i].lost = 0
            /\ task[i].last # "loss"
            /\ task[i].pc = "attempt" => task[i].real = task[i].attempt
            /\ task[i].pc = "backoff" => task[i].real = task[i].attempt + 1
            /\ (Done(i) /\ task[i].entered) => task[i].real = task[i].attempt + 1

\* at rate 0 three attempts were made, all of them real
C6_Witness ==
    \E i \in Tasks :
        /\ cfg.packet_loss_rate = 0 /\ Done(i)
        /\ task[i].real = 3 /\ task[i].lost = 0

\* C7: with loss rate 1.0 a request that reaches the retry loop is never
\* delivered; all max_retries attempts go to the simulated loss and
\* send_request returns (0, "All N attempts failed", "", False); the task
\* yields its result.
C7_AllLostAtRateOne ==
    cfg.packet_loss_rate = 100 =>
        \A i \in Tasks :
            /\ task[i].real = 0
            /\ (Done(i) /\ task[i].entered) =>
                  /\ task[i].lost = cfg.max_retries
                  /\ task[i].sent = "returned"
                  /\ task[i].outcome.status_code = 0
                  /\ task[i].outcome.is_rst_detected = FALSE
                  /\ task[i].outcome.response_body = <<>>
                  /\ task[i].outcome.reason =
                        TxtAll \o StrOfNat(cfg.max_retries) \o TxtAttemptsFailed
                  /\ task[i].result.file_path = files[i].path
                  /\ task[i].result.status_code = 0
                  /\ i \in finished \/ \E k \in 1..Len(results) :
                                          results[k] = task[i].result

\* Scenario E: rate 1.0, max_retries 3: three losses, no delivery, a result
C7_Witness ==
    \E i \in Tasks :
        /\ cfg.packet_loss_rate = 100 /\ cfg.max_retries = 3
        /\ Done(i) /\ task[i].lost = 3 /\ task[i].real = 0
        /\ Len(results) = 1

\* a per-sample failure: a malformed request line, no destination, or the
\* attempts used up by a timeout or an error (or by a reset that the policy
\* does not count as a block)
SampleFailed(i) ==
    /\ Done(i) /\ task[i].sent = "returned"
    /\ \/ task[i].outcome.reason = TxtInvalidRequestLine
       \/ task[i].outcome.reason = TxtNoHost
       \/ Exhausted(i) /\ task[i].last \in {"timeout", "error"}
       \/ Exhausted(i) /\ task[i].last = "reset" /\ ~cfg.rst_detect

\* C8: under custom_code 403 and no keyword every per-sample failure gives
\* a result with is_correct false and a reason, for a black and for a white
\* sample.
C8_FailureIsNeverCorrect ==
    \A i \in Tasks :
        (SampleFailed(i) /\ cfg.custom_code = 403 /\ cfg.keyword = <<>>) =>
            /\ ~task[i].result.is_correct
            /\ task[i].result.reason # <<>>

\* C9: a task yields one result: results never holds two entries of one
\* sample, holds exactly one of each when the run has completed, and an
\* entry never changes once appended.
C9_OneVerdictPerSample ==
    /\ [](\A i \in 1..Len(files) :
            LET at == {k \in 1..Len(results) : results[k].file_path = files[i].path}
            IN  /\ Cardinality(at) <= 1
                /\ run = "Completed" => Cardinality(at) = 1)
    /\ [](run = "Completed" => Len(results) = Len(files))
    /\ [][/\ Len(results') >= Len(results)
          /\ \A k \in 1..Len(results) : results'[k] = results[k]]_vars

\* a completed run of two samples, one of them retried after a backoff and
\* the other one ended by an exception
C9_Witness ==
    /\ run = "Completed" /\ Len(results) = 2
    /\ \E i, j \in Tasks :
          /\ task[i].sleeps = 1 /\ task[i].lost = 1 /\ task[i].sent = "returned"
          /\ task[j].sent = "raised"

\* C10: no update is lost: the workers' steps leave completed, results and
\* correct_count alone; each change of them appends one finished task's
\* result, takes it from the finished ones and counts it once; correct_count
\* is the number of correct results and completed the number of results at
\* every moment; when the run has completed every task's result is there.
C10_NoLostUpdate ==
    /\ [](/\ completed = Len(results)
          /\ correct_count =
                Cardinality({k \in 1..Len(results) : results[k].is_correct}))
    /\ [](run = "Completed" =>
            /\ Len(results) = Cardinality({i \in Tasks : Done(i)})
            /\ Len(results) = Len(files)
            /\ stats.correct_count =
                  Cardinality({i \in Tasks : task[i].result.is_correct}))
    /\ [][(run = "Running" /\ task' # task) =>
             UNCHANGED <<completed, results, correct_count>>]_vars
    /\ [][(run = "Running" /\ results' # results) =>
             \E i \in finished :
                /\ results' = Append(results, task[i].result)
                /\ i \notin finished'
                /\ completed' = completed + 1
                /\ correct_count' = correct_count +
                                    (IF task[i].result.is_correct THEN 1 ELSE 0)]_vars

\* a completed run in which two threads finished in the reverse of the
\* submission order, one verdict correct and one not
C10_Witness ==
    /\ run = "Completed" /\ cfg.threads = 2 /\ Len(results) = 2
    /\ results[1].file_path = files[2].path
    /\ correct_count = 1

\* the summary was computed: the counts of lines 490-501 are taken and the
\* first lines of the summary, the total among them, are printed
Summarised == run \in {"Completed", "Crashed"}

\* C11: in every run that produces a summary the reported total is the
\* number of submitted samples, and the black and the white totals add up
\* to it
C11_TotalsAddUp ==
    Summarised =>
        /\ stats.total_count = Len(task)
        /\ stats.total_count = Len(files)
        /\ stats.black_total + stats.white_total = stats.total_count
        /\ stats.black_total = Cardinality({i \in Tasks : files[i].is_black})
        /\ stats.white_total = Cardinality({i \in Tasks : ~files[i].is_black})

\* C11: a finished run of one black and one white sample, the white one
\* unreadable and so not correct
C11_Witness ==
    /\ run = "Completed"
    /\ stats.total_count = 2
    /\ stats.black_total = 1
    /\ stats.white_total = 1
    /\ \E i \in Tasks : ~files[i].is_black /\ task[i].sent = "raised"

\* the processing of sample i failed before or instead of a response: the
\* file could not be read, the port could not be parsed, the request line
\* or the destination was missing, or every attempt failed
FailedSample(i) ==
    /\ Done(i)
    /\ \/ task[i].sent = "raised"
       \/ ~task[i].entered
       \/ Exhausted(i)

\* C12: a failure while processing one sample stays inside that sample's
\* result: the finished task's future holds a result dictionary for its own
\* file (future.result() does not raise), the run is not cut short by it,
\* a step of one task changes no sibling's state or verdict, and in a
\* running run every task, the siblings of a failed one included, finishes
\* with a result
C12_FailureStaysInItsSample ==
    /\ [](\A i \in Tasks :
            Done(i) => /\ task[i].sent \in {"returned", "raised"}
                       /\ task[i].result # NoResult
                       /\ task[i].result.file = files[i].name
                       /\ task[i].result.expected_blocked = files[i].is_black)
    /\ []((\E i \in Tasks : FailedSample(i)) => run \in {"Running", "Completed"})
    /\ (run = "Running") ~> (\A i \in Tasks : Done(i) /\ task[i].result # NoResult)
    /\ [][\A i \in Tasks :
            Moves(i) => \A j \in Tasks \ {i} : task'[j] = task[j]]_vars
    /\ [][\A i \in Tasks : Done(i) => task'[i] = task[i]]_vars

\* C12: a run that completed with one sample whose file could not be read
\* and a sibling that got its 403
C12_Witness ==
    /\ run = "Completed"
    /\ \E i, j \in Tasks :
          /\ i # j
          /\ task[i].sent = "raised"
          /\ task[j].sent = "returned"
          /\ task[j].result.status_code = 403
          /\ task[j].result.is_correct

\* every submitted task has yielded its verdict to the main thread
EveryVerdictYielded ==
    /\ run \in {"Running", "Completed", "Crashed"}
    /\ queue = <<>>
    /\ finished = {}
    /\ \A i \in Tasks : Done(i)
    /\ completed = Len(task)
    /\ Len(results) = Len(task)

C14_RunEndsCompletedOrAborted ==
    /\ [](run \in {"Idle", "Running", "Completed", "Aborted"})
    /\ [](run = "Aborted" => ~cfg.directory_exists /\ task = <<>> /\ queue = <<>>)
    /\ [](~cfg.directory_exists => run \in {"Idle", "Aborted"})
    /\ [][\/ run = "Idle" /\ run' \in {"Running", "Aborted"}
          \/ run = "Running" /\ run' \in {"Running", "Completed"}
          \/ run \in {"Completed", "Aborted"} /\ run' = run]_vars
    /\ (cfg.directory_exists /\ run = "Idle") ~>
           (run = "Completed" /\ stats.total_count = Len(files))

\* C15: send_request returns is_rst_detected = True exactly when its last
\* attempt ended by ConnectionResetError: an attempt that ended in a connect
\* or read timeout, in another error, in a simulated loss or in a malformed
\* response never gives True, and a request that made no attempt never does
C15_ResetFlagOnlyOnReset ==
    \A i \in Tasks :
        Done(i) =>
            /\ task[i].outcome.is_rst_detected <=>
                  (task[i].sent = "returned" /\ task[i].entered
                   /\ task[i].last = "reset")
            /\ task[i].outcome.is_rst_detected =>
                  /\ task[i].resets > 0
                  /\ task[i].outcome.status_code = 0
                  /\ task[i].outcome.reason = TxtReset
            /\ task[i].last \in {"none", "loss", "timeout", "error", "closed",
                                  "read_timeout"}
                  => ~task[i].outcome.is_rst_detected

\* C15: a request whose first attempt was reset and whose last attempt timed
\* out: the outcome is the timeout's, without the reset flag
C15_Witness ==
    \E i \in Tasks :
        /\ Exhausted(i)
        /\ task[i].resets > 0
        /\ task[i].last = "timeout"
        /\ ~task[i].outcome.is_rst_detected
        /\ task[i].outcome.reason = TimeoutOutcome(cfg.max_retries).reason

\* the value of the Host header of sample i, in either of the two spellings
\* that send_request looks up
HostOf(i) ==
    LET headers == ParsedRequest[files[i].content].headers
    IN  IF DictHas(headers, TxtHost) THEN DictGet(headers, TxtHost, <<>>)
        ELSE DictGet(headers, TxtHostLower, <<>>)

\* the request line of sample i has a method and a path
HasRequestLine(i) ==
    Len(SplitWs(ParsedRequest[files[i].content].request_line)) >= 2

\* dest is what addr names: dest[1] is addr up to its first colon and the
\* decimal numeral of dest[2] is the rest; without a colon dest[1] is addr
\* and dest[2] the default port of the protocol
Names(dest, addr) ==
    IF Contains(addr, <<":">>)
    THEN LET k == FindFrom(addr, <<":">>, 1)
         IN  /\ dest[1] = Take(addr, k - 1)
             /\ StrOfNat(dest[2]) = Strip(Drop(addr, k + 1))
    ELSE /\ dest[1] = addr
         /\ dest[2] = IF cfg.protocol = "https" THEN 443 ELSE 80

\* C16: every delivery goes to the explicit target when one is given,
\* whatever the Host header says, and otherwise to the Host header's value;
\* with neither, send_request makes no attempt and returns status 0 with
\* the reason "No Host header found and no target specified"
C16_TargetBeforeHost ==
    \A i \in Tasks :
        /\ (task[i].real > 0 \/ task[i].entered) =>
              /\ HasRequestLine(i)
              /\ task[i].dest # <<>>
              /\ cfg.target_host # <<>> => Names(task[i].dest, cfg.target_host)
              /\ cfg.target_host = <<>> =>
                    HostOf(i) # <<>> /\ Names(task[i].dest, HostOf(i))
        /\ (Done(i) /\ files[i].readable /\ HasRequestLine(i)
            /\ cfg.target_host = <<>> /\ HostOf(i) = <<>>) =>
              /\ ~task[i].entered
              /\ task[i].real = 0 /\ task[i].lost = 0 /\ task[i].sleeps = 0
              /\ task[i].sent = "returned"
              /\ task[i].outcome = Outcome(0, TxtNoHost, <<>>, FALSE)
              /\ task[i].result.status_code = 0
              /\ task[i].result.reason = TxtNoHost
        /\ ~task[i].entered => task[i].real = 0 /\ task[i].dest = <<>>

\* C16: a sample whose Host header names x with an unparsable port was
\* delivered to the target t:8
C16_Witness ==
    \E i \in Tasks :
        /\ files[i].content = ContentBadPort
        /\ cfg.target_host = TargetT8
        /\ task[i].real > 0
        /\ task[i].dest = <<(<<"t">>), 8>>

\* C16: a sample without Host header and without target came back with the
\* explicit error and no attempt
C16_WitnessNoDestination ==
    \E i \in Tasks :
        /\ files[i].content = ContentNoHost
        /\ cfg.target_host = <<>>
        /\ Done(i)
        /\ task[i].real = 0
        /\ task[i].result.reason = TxtNoHost

\* C17: a readable sample whose request line has fewer than two parts, an
\* empty file included, gets a result by the normal return of send_request
\* and not by an exception: no attempt was made, the status code is 0 and
\* the reason is "Invalid request line"; the run goes on to finish with a
\* result for every sample
C17_MalformedSampleIsAnOutcome ==
    /\ [](\A i \in Tasks :
            (Done(i) /\ files[i].readable /\ ~HasRequestLine(i)) =>
                /\ task[i].sent = "returned"
                /\ ~task[i].entered
                /\ task[i].real = 0 /\ task[i].lost = 0 /\ task[i].sleeps = 0
                /\ task[i].outcome = Outcome(0, TxtInvalidRequestLine, <<>>, FALSE)
                /\ task[i].result.status_code = 0
                /\ task[i].result.reason = TxtInvalidRequestLine
                /\ task[i].result.content = files[i].content)
    /\ (run = "Running" /\ \E i \in Tasks : files[i].readable /\ ~HasRequestLine(i))
          ~> (/\ run = "Completed"
              /\ Len(results) = Len(files)
              /\ \A i \in Tasks : Done(i) /\ task[i].result # NoResult)

\* C17: a finished run of an empty sample and a sample that got its 403
C17_Witness ==
    /\ run = "Completed"
    /\ \E i, j \in Tasks :
          /\ files[i].content = <<>> /\ files[i].readable
          /\ task[i].result.reason = TxtInvalidRequestLine
          /\ task[i].real = 0
          /\ task[j].real > 0
          /\ task[j].result.status_code = 403

\* C20: at every moment at most cfg.threads tasks are being executed, and
\* all tasks, one per sample, are submitted to the one pool when the run
\* starts: none is added or removed later, and a task that is neither being
\* executed nor done waits in the pool's queue
C20_PoolBoundsConcurrency ==
    /\ [](Cardinality(Running) <= cfg.threads)
    /\ [](run = "Running" =>
            /\ DOMAIN task = 1..Len(files)
            /\ \A i \in Tasks :
                  task[i].pc = "queued" <=> (\E k \in 1..Len(queue) : queue[k] = i))
    /\ [][(run = "Idle" /\ run' = "Running") =>
            /\ queue' = [i \in 1..Len(files) |-> i]
            /\ task' = [i \in 1..Len(files) |-> NewTask]]_vars
    /\ [][run = "Running" => DOMAIN task' = DOMAIN task]_vars

\* C20: in a pool of one thread a task is being executed while another
\* waits in the queue
C20_Witness ==
    /\ cfg.threads = 1
    /\ Cardinality(Running) = 1
    /\ queue # <<>>
    /\ \E i \in Tasks : task[i].pc = "queued"

\* main has called test_directory and the process has ended
ExitedAfterCall == cli.pc = "exited" /\ run # "Idle"

\* C18: a command line with a target whose sample directory is missing
\* starts no task and ends with a status other than 0; with an existing
\* directory it ends with the status 0, whatever the verdicts are
C18_ExitStatusTellsMissingDirectory ==
    ExitedAfterCall =>
        IF ~cfg.directory_exists
        THEN task = <<>> /\ cli.exit_code # 0
        ELSE cli.exit_code = 0

\* every part of the --timeout value that main reads is a number
TimeoutParses(arg) ==
    LET parts == SplitOn(arg, <<",">>)
    IN  /\ FloatOk(parts[1])
        /\ Len(parts) >= 2 => FloatOk(parts[2])

\* C19 as stated: with a --timeout value that is no number the run is over
\* before any task starts: no task is submitted and no request is sent
C19_InvalidTimeoutAborts ==
    ~TimeoutParses(cli.timeout_arg) =>
        /\ run \in {"Idle", "Aborted"}
        /\ task = <<>>

\* C19: a --timeout value that is no number is not fatal: main passes on
\* the default pair (10.0, 30.0) and calls test_directory all the same, as
\* it does for every command line whose target can be resolved; a value
\* that is a number or two is passed on as given
C19_InvalidTimeoutFallsBack ==
    /\ [](cli.timeout # <<>> =>
            /\ cli.pc \in {"called", "exited"}
            /\ ~TimeoutParses(cli.timeout_arg) =>
                  cli.timeout = <<[whole |-> 10, frac |-> <<>>],
                                  [whole |-> 30, frac |-> <<>>]>>
            /\ TimeoutParses(cli.timeout_arg) =>
                  LET parts == SplitOn(cli.timeout_arg, <<",">>)
                  IN  /\ cli.timeout[1] = FloatOf(parts[1])
                      /\ cli.timeout[2] = FloatOf(parts[IF Len(parts) = 1 THEN 1 ELSE 2]))
    /\ [][(cli.pc = "main" /\ cli.target \in TargetUrls) =>
            /\ cli'.pc = "called"
            /\ cli'.timeout # <<>>]_vars
    /\ [](run # "Idle" => cli.timeout # <<>>)

\* C19: a command line with --timeout abc whose run sent a request,
\* completed, and ended with the status 0
C19_Witness ==
    /\ cli.timeout_arg = TimeoutWord
    /\ cli.pc = "exited"
    /\ cli.exit_code = 0
    /\ run = "Completed"
    /\ cli.timeout = TimeoutOnError
    /\ \E i \in Tasks : task[i].real > 0

\* task i can take its next step, whatever the other tasks are doing
CanGoOn(i) ==
    \/ /\ task[i].pc = "backoff"
       /\ ENABLED BackoffDone(i)
    \/ /\ task[i].pc = "attempt"
       /\ \/ ENABLED AttemptLost(i)
          \/ ENABLED AttemptTimeout(i)
          \/ ENABLED AttemptReset(i)
          \/ ENABLED AttemptError(i)
          \/ ENABLED AttemptResponse(i)

\* C21: the attempts of one sample come one after the other: when attempt
\* k is in flight the k attempts before it and their k sleeps are over, the
\* loop variable moves only out of a finished sleep and by one, and a step
\* of one task leaves the attempts of the others as they are; a task in an
\* attempt or a sleep waits for no other task
C21_AttemptsAreSequential ==
    /\ [](\A i \in Tasks :
            /\ task[i].pc = "attempt" =>
                  /\ task[i].real + task[i].lost = task[i].attempt
                  /\ task[i].sleeps = task[i].attempt
            /\ task[i].pc = "backoff" =>
                  /\ task[i].real + task[i].lost = task[i].attempt + 1
                  /\ task[i].sleeps = task[i].attempt + 1
            /\ task[i].pc \in {"attempt", "backoff"} => CanGoOn(i))
    /\ [][\A i \in Tasks :
            task'[i].attempt # task[i].attempt =>
                /\ task[i].pc = "backoff"
                /\ task'[i].attempt = task[i].attempt + 1
                /\ \A j \in Tasks \ {i} : task'[j] = task[j]]_vars

\* C21: two samples in flight at once, one in its second attempt while the
\* other sleeps after its first
C21_Witness ==
    \E i, j \in Tasks :
        /\ i # j
        /\ task[i].pc = "attempt" /\ task[i].attempt = 1
        /\ task[j].pc = "backoff" /\ task[j].attempt = 0

\* C23: the reported count of false positives is the number of white
\* samples that were classified as blocked, the reported count of
\* detections is the number of black samples that were classified as
\* blocked, and a sample that was not classified as blocked is in neither
C23_RatesCountBlockedSamples ==
    Summarised =>
        /\ stats.white_blocked_incorrectly =
              Cardinality({i \in Tasks : ~files[i].is_black /\ task[i].blocked})
        /\ stats.black_blocked_correctly =
              Cardinality({i \in Tasks : files[i].is_black /\ task[i].blocked})

\* send_request returned for sample i and the sample was classified
Classified(i) == Done(i) /\ task[i].sent = "returned"

WireLines == SplitOn(wire.full_request, <<CR, LF>>)

FirstEmptyLine ==
    CHOOSE k \in 1..Len(WireLines) :
        /\ WireLines[k] = <<>>
        /\ \A j \in 1..(k - 1) : WireLines[j] # <<>>

\* the headers on the wire, in order, as name and value
WireHeaders ==
    [i \in 1..(FirstEmptyLine - 2) |->
        LET kv == SplitOnce(WireLines[i + 1], <<":", SP>>)
        IN  <<kv[1], kv[2]>>]

\* the method and the path on the wire
WireMethod == SplitOn(WireLines[1], <<SP>>)[1]

WirePath == SplitOn(WireLines[1], <<SP>>)[2]

\* the body on the wire
WireBody ==
    Drop(wire.full_request,
         FindFrom(wire.full_request, <<CR, LF, CR, LF>>, 1) + 4)

IsContentLength(name) == LowerStr(name) = TxtContentLengthLower

ContentLengths(h) == {i \in 1..Len(h) : IsContentLength(h[i][1])}

\* C25: a Content-Length is added to the headers of the sample exactly when
\* the sample has none in any letter case, so that a sample with at most one
\* gives a request with at most one, and the headers of the sample are sent
\* as they are
C25_ContentLengthAnyCase ==
    wire.pc = "built" =>
        /\ (Len(WireHeaders) > Len(wire.req.headers))
               <=> (ContentLengths(wire.req.headers) = {})
        /\ Cardinality(ContentLengths(wire.req.headers)) <= 1
               => Cardinality(ContentLengths(WireHeaders)) <= 1
        /\ \A i \in ContentLengths(wire.req.headers) :
               WireHeaders[i] = wire.req.headers[i]

(***************************************************************************)
(* The headers of the sample file, read line by line.                      *)
(***************************************************************************)
FileLines == SplitOn(Strip(wire.content), <<LF>>)

\* the first line after the request line that is blank, or one past the end
FileBlank ==
    IF \E k \in 2..Len(FileLines) : Strip(FileLines[k]) = <<>>
    THEN CHOOSE k \in 2..Len(FileLines) :
            /\ Strip(FileLines[k]) = <<>>
            /\ \A j \in 2..(k - 1) : Strip(FileLines[j]) # <<>>
    ELSE Len(FileLines) + 1

HasColon(line) == Contains(line, <<":">>)

\* the header lines of the file in file order, as name and value
FileHeaders ==
    LET ls == SelectSeq(SubSeq(FileLines, 2, FileBlank - 1), HasColon)
    IN  [i \in 1..Len(ls) |->
            <<Strip(SplitOnce(ls[i], <<":">>)[1]),
              Strip(SplitOnce(ls[i], <<":">>)[2])>>]

FileNames == {FileHeaders[i][1] : i \in 1..Len(FileHeaders)}

FirstLineOf(name) ==
    CHOOSE i \in 1..Len(FileHeaders) :
        /\ FileHeaders[i][1] = name
        /\ \A j \in 1..(i - 1) : FileHeaders[j][1] # name

LastLineOf(name) ==
    CHOOSE i \in 1..Len(FileHeaders) :
        /\ FileHeaders[i][1] = name
        /\ \A j \in (i + 1)..Len(FileHeaders) : FileHeaders[j][1] # name

\* C26: the headers on the wire are the header names of the file, each once,
\* in the order of their first lines in the file and with the value of their
\* last line; a computed Content-Length, when there is one, follows them
C26_HeadersKeepFileOrder ==
    wire.pc = "built" =>
        LET n == Cardinality(FileNames)
        IN  /\ Len(WireHeaders) \in {n, n + 1}
            /\ {WireHeaders[i][1] : i \in 1..n} = FileNames
            /\ \A i \in 1..n :
                  WireHeaders[i][2] = FileHeaders[LastLineOf(WireHeaders[i][1])][2]
            /\ \A i, j \in 1..n :
                  i < j => FirstLineOf(WireHeaders[i][1]) < FirstLineOf(WireHeaders[j][1])
            /\ Len(WireHeaders) = n + 1 =>
                  /\ WireHeaders[n + 1][1] = TxtContentLength
                  /\ WireHeaders[n + 1][2]
                        = StrOfNat(Utf8Len(wire.req.body))

\* a sample with a repeated header name and no Content-Length is on the wire
C26_Witness ==
    /\ wire.pc = "built"
    /\ wire.content = SampleRepeated
    /\ Len(FileHeaders) = 3
    /\ Len(WireHeaders) = 3
    /\ WireHeaders[3][1] = TxtContentLength

\* the sample was generated from a structured request
Generated == wire.spec # NoSpec

\* C27: a structured request written as a sample file, parsed and built into
\* the request text gives its own method and path and its own headers in
\* their order, followed at most by the computed Content-Length
C27_RoundTrip ==
    Generated =>
        /\ wire.pc # "refused"
        /\ wire.pc \in {"parsed", "built"} =>
              wire.req.headers = wire.spec.headers
        /\ wire.pc = "built" =>
              LET n == Len(wire.spec.headers)
              IN  /\ WireMethod = wire.spec.method
                  /\ WirePath = wire.spec.path
                  /\ Len(WireHeaders) \in {n, n + 1}
                  /\ SubSeq(WireHeaders, 1, n) = wire.spec.headers
                  /\ Len(WireHeaders) = n + 1 =>
                        WireHeaders[n + 1]
                            = <<TxtContentLength,
                                StrOfNat(Utf8Len(wire.spec.body))>>

\* a structured request with a version, two headers and a body is on the wire
C27_Witness ==
    /\ Generated
    /\ wire.pc = "built"
    /\ wire.spec.version = TxtHttp10
    /\ Len(wire.spec.headers) = 2
    /\ wire.spec.body = TxtBodyKV
    /\ Len(WireHeaders) = 3

\* the text after the first empty line of the file
AfterBlankLine ==
    Drop(wire.content, FindFrom(wire.content, <<LF, LF>>, 1) + 2)

\* the file has only LF line ends, and its first blank line is an empty
\* line that ends a block of lines holding text
PlainSample ==
    /\ ~Contains(wire.content, <<CR>>)
    /\ FindFrom(wire.content, <<LF, LF>>, 1) > 0
    /\ Head(wire.content) \notin Whitespace
    /\ LET block == Take(wire.content,
                         FindFrom(wire.content, <<LF, LF>>, 1) - 1)
       IN  \A k \in 1..Len(SplitOn(block, <<LF>>)) :
              Strip(SplitOn(block, <<LF>>)[k]) # <<>>

\* C28: the body is the text after the first blank line less one newline at
\* its end, nothing else removed
C28_BodyVerbatimLessOneNewline ==
    (wire.pc \in {"parsed", "built"} /\ PlainSample) =>
        wire.req.body =
            IF AfterBlankLine # <<>> /\ AfterBlankLine[Len(AfterBlankLine)] = LF
            THEN Take(AfterBlankLine, Len(AfterBlankLine) - 1)
            ELSE AfterBlankLine

\* the tokens of the first line of a response
StatusParts(response_str) == SplitWs(SplitOn(response_str, <<CR, LF>>)[1])

\* the latest attempt of task i read a response and send_request returned
ReturnedOnResponse(i) ==
    /\ Classified(i)
    /\ task[i].last \in {"closed", "read_timeout"}

\* C29: a response whose first line has fewer than two tokens, the empty
\* response among them, is returned with status code 0 and without the
\* reset flag
C29_MalformedResponseIsStatusZero ==
    \A i \in Tasks :
        (ReturnedOnResponse(i) /\ Len(StatusParts(task[i].received)) < 2) =>
            /\ task[i].outcome.status_code = 0
            /\ ~task[i].outcome.is_rst_detected

\* nothing was read before the read timed out, and the sample has its verdict
C29_Witness ==
    \E i \in Tasks :
        /\ ReturnedOnResponse(i)
        /\ task[i].last = "read_timeout"
        /\ task[i].received = <<>>
        /\ task[i].outcome.reason = TxtInvalidStatusLine

\* for every response the network can give: whether it has a status code or
\* a first line of fewer than two tokens, and the status code it stands for
Answer ==
    [r \in Responses |->
        LET parts == StatusParts(r)
        IN  [answers |-> Len(parts) < 2 \/ IntOk(parts[2]),
             status  |-> IF Len(parts) < 2 THEN 0
                         ELSE IF IntOk(parts[2]) THEN IntOf(parts[2])
                         ELSE 0]]

\* C30: the attempt that reads a response with a status code, whichever it
\* is, or with a first line of fewer than two tokens ends send_request with
\* that response as the outcome and without a sleep, and nothing of the
\* sample moves afterwards: no further attempt, no further sleep
C30_ResponseEndsTheRetries ==
    /\ [][\A i \in Tasks :
            (/\ task[i].pc = "attempt"
             /\ Moves(i)
             /\ AttemptResponse(i)
             /\ Answer[task'[i].received].answers) =>
                /\ Classified(i)'
                /\ task'[i].outcome.response_body = task'[i].received
                /\ task'[i].outcome.status_code = Answer[task'[i].received].status
                /\ task'[i].attempt = task[i].attempt
                /\ task'[i].sleeps = task[i].sleeps]_vars
    /\ [][\A i \in Tasks : ReturnedOnResponse(i) => task'[i] = task[i]]_vars

\* the first attempt failed and was slept on, the second read a response
\* that does not block, and a third was allowed
C30_Witness ==
    \E i \in Tasks :
        /\ ReturnedOnResponse(i)
        /\ task[i].outcome.status_code = 200
        /\ task[i].attempt = 1
        /\ task[i].sleeps = 1
        /\ cfg.max_retries = 3

\* the tester processes of run k
ProcessesOf(w, k) == {p \in DOMAIN w.procs : w.procs[p].owner = k}

\* stop request s has been answered, with success, the error answer or an
\* exception
Answered(s) == web.stops[s].pc \in {"returned", "raised"}

\* C22: once a stop request served during a run has been answered, no tester
\* process of that run is running, none is launched for it afterwards and
\* none starts a further sample
C22_StopTakesEffect ==
    /\ [](\A s \in DOMAIN web.stops :
            Answered(s) =>
                \A k \in web.stops[s].during :
                    \A p \in ProcessesOf(web, k) : Over(p))
    /\ [][\A s \in DOMAIN web.stops :
            Answered(s) =>
                \A k \in web.stops[s].during :
                    /\ ProcessesOf(web', k) = ProcessesOf(web, k)
                    /\ \A p \in ProcessesOf(web, k) :
                          web'.procs[p].left = web.procs[p].left]_vars

\* send_request of task i has returned from its retry loop or after it
LoopReturned(i) == Done(i) /\ task[i].entered /\ task[i].sent = "returned"

\* C31: the reset flag of the outcome is set exactly when the iteration with
\* the last value of the loop variable, max_retries - 1, made a real attempt
\* that ended by ConnectionResetError; a reset on an earlier attempt that is
\* followed by a response, a timeout, another error or a simulated loss
\* leaves the flag unset
C31_ResetFlagIsTheLastAttempts ==
    \A i \in Tasks :
        LoopReturned(i) =>
            /\ task[i].outcome.is_rst_detected <=>
                  /\ task[i].attempt = cfg.max_retries - 1
                  /\ task[i].real + task[i].lost = cfg.max_retries
                  /\ task[i].last = "reset"
            /\ (task[i].resets > 0 /\ task[i].last # "reset") =>
                  ~task[i].outcome.is_rst_detected

\* of three attempts the first was lost by simulation, the second was reset
\* and slept on, the third was reset and gave the flag
C31_Witness ==
    \E i \in Tasks :
        /\ LoopReturned(i)
        /\ cfg.max_retries = 3
        /\ task[i].lost = 1
        /\ task[i].resets = 2
        /\ task[i].sleeps = 2
        /\ task[i].outcome.is_rst_detected

\* send_request of task i has returned an outcome
SendReturned(i) == Done(i) /\ task[i].sent = "returned"

\* C32: an outcome with the reset flag has status code 0 and an empty
\* response body; an outcome with a status code other than 0 comes from a
\* real attempt that read a response whose status line has an integer as
\* second token, which is that status code, and never from a simulated
\* loss, a missing destination or a request line without path
C32_OutcomeIsWellFormed ==
    \A i \in Tasks :
        SendReturned(i) =>
            /\ task[i].outcome.is_rst_detected =>
                  /\ task[i].outcome.status_code = 0
                  /\ task[i].outcome.response_body = <<>>
            /\ task[i].outcome.status_code # 0 =>
                  /\ task[i].entered
                  /\ task[i].real >= 1
                  /\ task[i].last \in {"closed", "read_timeout"}
                  /\ Len(StatusParts(task[i].received)) >= 2
                  /\ IntOk(StatusParts(task[i].received)[2])
                  /\ task[i].outcome.status_code
                        = IntOf(StatusParts(task[i].received)[2])
                  /\ task[i].outcome.response_body = task[i].received

\* after a simulated loss the second attempt read a response with status 403
C32_Witness ==
    \E i \in Tasks :
        /\ SendReturned(i)
        /\ task[i].lost = 1
        /\ task[i].real = 1
        /\ task[i].outcome.status_code = 403
        /\ task[i].received = Resp403

\* the tester processes that are alive
Alive == {p \in DOMAIN web.procs : web.procs[p].state = "running"}

\* C33: at most one tester process is alive at any time
C33_OneTesterAtATime == Cardinality(Alive) <= 1

\* C34: a tester process that is alive, none other being alive with it, is
\* the one current_process names, and is_testing is true
C34_AliveTesterIsTracked ==
    \A p \in Alive :
        Alive = {p} =>
            /\ web.is_testing
            /\ web.current_process = p

\* the events request g has taken
Taken(g) == {web.gets[g].results[i] : i \in 1..Len(web.gets[g].results)}

\* C35: a get_results request that has found the queue non-empty finds an
\* event when it calls get(), so that it never waits and always returns;
\* and every event put is in the queue or with exactly one request
C35_DrainNeverBlocks ==
    /\ \A g \in DOMAIN web.gets :
          web.gets[g].pc = "get" => web.events # <<>>
    /\ \A g, h \in DOMAIN web.gets : g # h => Taken(g) \cap Taken(h) = {}
    /\ \A n \in 1..web.puts :
          \/ \E i \in 1..Len(web.events) : web.events[i].n = n
          \/ \E g \in DOMAIN web.gets : \E e \in Taken(g) : e.n = n

=============================================================================
